---- MODULE Spec2Model ----
(***************************************************************************)
(* Voice input manager (VoiceInputManager, src/unnamed/part_000): one      *)
(* capture session over the live speech engine or the fallback media       *)
(* recorder, the transcript normalizers, and the field they write.         *)
(*                                                                         *)
(* Text is a sequence of one-character strings.                            *)
(***************************************************************************)
EXTENDS Integers, Sequences, FiniteSets, TLC

\* ------------------------------------------------------------------ text

Digits == <<"0", "1", "2", "3", "4", "5", "6", "7", "8", "9">>

UpperCase ==
    <<"A", "B", "C", "D", "E", "F", "G", "H", "I", "J", "K", "L", "M",
      "N", "O", "P", "Q", "R", "S", "T", "U", "V", "W", "X", "Y", "Z">>

LowerCase ==
    <<"a", "b", "c", "d", "e", "f", "g", "h", "i", "j", "k", "l", "m",
      "n", "o", "p", "q", "r", "s", "t", "u", "v", "w", "x", "y", "z">>

IsDigit(c) == \E i \in 1..Len(Digits) : Digits[i] = c

DigitVal(c) == (CHOOSE i \in 1..Len(Digits) : Digits[i] = c) - 1

IsSpace(c) == c = " "

\* String.prototype.toLowerCase, one character
LowerChar(c) ==
    IF \E i \in 1..Len(UpperCase) : UpperCase[i] = c
    THEN LowerCase[CHOOSE i \in 1..Len(UpperCase) : UpperCase[i] = c]
    ELSE c

ToLower(s) == [i \in 1..Len(s) |-> LowerChar(s[i])]

\* s has pat at position i (1-based)
HasAt(s, pat, i) ==
    /\ i >= 1
    /\ i + Len(pat) - 1 <= Len(s)
    /\ \A k \in 1..Len(pat) : s[i + k - 1] = pat[k]

\* String.prototype.includes
Includes(s, pat) == \E i \in 1..(Len(s) + 1) : HasAt(s, pat, i)

\* A Number holding a non-negative integer is written as its decimal digits
\* without leading zeros. The operators below are those of the IEEE doubles
\* of the code on the integers a double holds exactly and whose products it
\* rounds to the nearest double of at most 15 significant digits: up to 15
\* digits, or one digit followed by up to 21 zeros.

RECURSIVE StripZeros(_)
StripZeros(ds) ==
    IF Len(ds) > 1 /\ ds[1] = "0" THEN StripZeros(Tail(ds)) ELSE ds

RECURSIVE DropTrailingZeros(_)
DropTrailingZeros(ds) ==
    IF Len(ds) > 1 /\ ds[Len(ds)] = "0"
    THEN DropTrailingZeros(SubSeq(ds, 1, Len(ds) - 1))
    ELSE ds

Zeros(k) == [i \in 1..k |-> "0"]

\* parseInt of a string of decimal digits
ParseInt(ds) == StripZeros(ds)

\* n * 10^k
TimesPow10(n, k) == IF n = <<"0">> THEN n ELSE n \o Zeros(k)

\* the decimal digits of a small non-negative integer
RECURSIVE DecStr(_)
DecStr(n) ==
    IF n < 10 THEN <<Digits[n + 1]>>
    ELSE Append(DecStr(n \div 10), Digits[(n % 10) + 1])

\* String(n), Number::toString: the decimal digits up to 21 of them, beyond
\* that the exponent form d[.ddd]e+x
NumberToString(n) ==
    IF Len(n) <= 21 THEN n
    ELSE LET sig == DropTrailingZeros(n)
         IN <<sig[1]>>
              \o (IF Len(sig) > 1 THEN <<".">> \o Tail(sig) ELSE <<>>)
              \o <<"e", "+">> \o DecStr(Len(n) - 1)

IsDigitOrSpace(c) == IsDigit(c) \/ IsSpace(c)

\* text.replace(...) keeping the blanks as well as the digits
DigitsAndSpaces(s) == SelectSeq(s, IsDigitOrSpace)

\* text.replace(/[^0-9]/g, '')  (also /\D/g)
OnlyDigits(s) == SelectSeq(s, IsDigit)

\* ---------------------------------------------------------- normalizers

W_lakh == <<"l", "a", "k", "h">>
W_lac == <<"l", "a", "c">>
W_crore == <<"c", "r", "o", "r", "e">>
W_thousand == <<"t", "h", "o", "u", "s", "a", "n", "d">>

\* the end of the run of digits that starts at i (i - 1 when s[i] is none)
RECURSIVE DigitRunEnd(_, _)
DigitRunEnd(s, i) ==
    IF i <= Len(s) /\ IsDigit(s[i]) THEN DigitRunEnd(s, i + 1) ELSE i - 1

\* the end of the run of blanks that starts at i (i - 1 when s[i] is none)
RECURSIVE SpaceRunEnd(_, _)
SpaceRunEnd(s, i) ==
    IF i <= Len(s) /\ IsSpace(s[i]) THEN SpaceRunEnd(s, i + 1) ELSE i - 1

\* /(\d+)\s*(w1|w2|...)/i matches s from position i: digits, then blanks,
\* then one of the words; no word begins with a digit or a blank, so \d+ and
\* \s* take their whole runs
UnitMatchAt(s, words, i) ==
    /\ IsDigit(s[i])
    /\ LET m == SpaceRunEnd(s, DigitRunEnd(s, i) + 1) + 1
       IN \E w \in words : HasAt(s, w, m)

UnitMatches(s, words) ==
    \E i \in 1..Len(s) : UnitMatchAt(ToLower(s), words, i)

\* the digit group of the leftmost match
UnitGroup(s, words) ==
    LET low == ToLower(s)
        i == CHOOSE a \in 1..Len(s) :
               /\ UnitMatchAt(low, words, a)
               /\ \A b \in 1..(a - 1) : ~ UnitMatchAt(low, words, b)
    IN SubSeq(s, i, DigitRunEnd(s, i))

_extractAmount(text) ==
    IF UnitMatches(text, {W_lakh, W_lac})
    THEN NumberToString(TimesPow10(ParseInt(UnitGroup(text, {W_lakh, W_lac})), 5))
    ELSE IF UnitMatches(text, {W_crore})
    THEN NumberToString(TimesPow10(ParseInt(UnitGroup(text, {W_crore})), 7))
    ELSE IF UnitMatches(text, {W_thousand})
    THEN NumberToString(TimesPow10(ParseInt(UnitGroup(text, {W_thousand})), 3))
    ELSE IF OnlyDigits(text) # <<>> THEN OnlyDigits(text) ELSE text

W_hundred == <<"h", "u", "n", "d", "r", "e", "d">>

\* the word table of _textToNumber, with each value as its decimal digits
numberWords ==
    << <<(<<"z", "e", "r", "o">>), <<"0">>>>,
       <<(<<"o", "n", "e">>), <<"1">>>>,
       <<(<<"t", "w", "o">>), <<"2">>>>,
       <<(<<"t", "h", "r", "e", "e">>), <<"3">>>>,
       <<(<<"f", "o", "u", "r">>), <<"4">>>>,
       <<(<<"f", "i", "v", "e">>), <<"5">>>>,
       <<(<<"s", "i", "x">>), <<"6">>>>,
       <<(<<"s", "e", "v", "e", "n">>), <<"7">>>>,
       <<(<<"e", "i", "g", "h", "t">>), <<"8">>>>,
       <<(<<"n", "i", "n", "e">>), <<"9">>>>,
       <<(<<"t", "e", "n">>), <<"1", "0">>>>,
       <<(<<"e", "l", "e", "v", "e", "n">>), <<"1", "1">>>>,
       <<(<<"t", "w", "e", "l", "v", "e">>), <<"1", "2">>>>,
       <<(<<"t", "h", "i", "r", "t", "e", "e", "n">>), <<"1", "3">>>>,
       <<(<<"f", "o", "u", "r", "t", "e", "e", "n">>), <<"1", "4">>>>,
       <<(<<"f", "i", "f", "t", "e", "e", "n">>), <<"1", "5">>>>,
       <<(<<"s", "i", "x", "t", "e", "e", "n">>), <<"1", "6">>>>,
       <<(<<"s", "e", "v", "e", "n", "t", "e", "e", "n">>), <<"1", "7">>>>,
       <<(<<"e", "i", "g", "h", "t", "e", "e", "n">>), <<"1", "8">>>>,
       <<(<<"n", "i", "n", "e", "t", "e", "e", "n">>), <<"1", "9">>>>,
       <<(<<"t", "w", "e", "n", "t", "y">>), <<"2", "0">>>>,
       <<(<<"t", "h", "i", "r", "t", "y">>), <<"3", "0">>>>,
       <<(<<"f", "o", "r", "t", "y">>), <<"4", "0">>>>,
       <<(<<"f", "i", "f", "t", "y">>), <<"5", "0">>>>,
       <<(<<"s", "i", "x", "t", "y">>), <<"6", "0">>>>,
       <<(<<"s", "e", "v", "e", "n", "t", "y">>), <<"7", "0">>>>,
       <<(<<"e", "i", "g", "h", "t", "y">>), <<"8", "0">>>>,
       <<(<<"n", "i", "n", "e", "t", "y">>), <<"9", "0">>>>,
       <<(<<"h", "u", "n", "d", "r", "e", "d">>), <<"1", "0", "0">>>>,
       <<(<<"t", "h", "o", "u", "s", "a", "n", "d">>), <<"1", "0", "0", "0">>>> >>

\* the lower-case property names numberWords inherits from Object.prototype:
\* numberWords[word] is a function or an object for them, not undefined
InheritedKeys ==
    { <<"c", "o", "n", "s", "t", "r", "u", "c", "t", "o", "r">>,
      <<"_", "_", "p", "r", "o", "t", "o", "_", "_">> }

IsNumberWord(word) == \E i \in 1..Len(numberWords) : numberWords[i][1] = word

WordValue(word) ==
    numberWords[CHOOSE i \in 1..Len(numberWords) : numberWords[i][1] = word][2]

\* the accumulator when it is no Number any more: the value NaN, or a string
\* that is no numeral (what += gives with a function or an object)
NaN == <<"N", "a", "N">>
NonNumeric == <<"s", "t", "r", "i", "n", "g">>

IsNumber(x) == x \notin {NaN, NonNumeric}

\* a + b + carry of decimal digits, digit by digit from the right
RECURSIVE AddDigits(_, _, _)
AddDigits(a, b, carry) ==
    IF a = <<>> /\ b = <<>>
    THEN IF carry = 0 THEN <<>> ELSE <<Digits[carry + 1]>>
    ELSE LET x == IF a = <<>> THEN 0 ELSE DigitVal(a[Len(a)])
             y == IF b = <<>> THEN 0 ELSE DigitVal(b[Len(b)])
             ra == IF a = <<>> THEN a ELSE SubSeq(a, 1, Len(a) - 1)
             rb == IF b = <<>> THEN b ELSE SubSeq(b, 1, Len(b) - 1)
         IN Append(AddDigits(ra, rb, (x + y + carry) \div 10),
                   Digits[((x + y + carry) % 10) + 1])

\* current += n for a Number n: a sum, NaN, or a longer string
PlusNumber(current, n) ==
    IF IsNumber(current) THEN StripZeros(AddDigits(current, n, 0)) ELSE current

\* (current || 1) * 10^k: 0 and NaN are falsy, a string times a number is NaN
TimesOrOne(current, k) ==
    CASE current = NonNumeric -> NaN
      [] current = NaN \/ current = <<"0">> -> TimesPow10(<<"1">>, k)
      [] OTHER -> TimesPow10(current, k)

\* the body of words.forEach, lines 212-229
WordStep(current, word) ==
    IF OnlyDigits(word) # <<>> THEN PlusNumber(current, ParseInt(OnlyDigits(word)))
    ELSE IF word = W_hundred THEN TimesOrOne(current, 2)
    ELSE IF word = W_thousand THEN TimesOrOne(current, 3)
    ELSE IF IsNumberWord(word) THEN PlusNumber(current, WordValue(word))
    ELSE IF word \in InheritedKeys THEN NonNumeric
    ELSE current

\* text.split(/\s+/)
RECURSIVE SplitSpaces(_)
SplitSpaces(s) ==
    IF \E i \in 1..Len(s) : IsSpace(s[i])
    THEN LET i == CHOOSE a \in 1..Len(s) :
                    /\ IsSpace(s[a])
                    /\ \A b \in 1..(a - 1) : ~IsSpace(s[b])
         IN <<SubSeq(s, 1, i - 1)>>
              \o SplitSpaces(SubSeq(s, SpaceRunEnd(s, i) + 1, Len(s)))
    ELSE <<s>>

RECURSIVE Accumulate(_, _)
Accumulate(words, current) ==
    IF words = <<>> THEN current
    ELSE Accumulate(Tail(words), WordStep(current, words[1]))

\* the total whatever it is
_textToNumberNoFallback(text) ==
    Accumulate(SplitSpaces(ToLower(text)), <<"0">>)

_textToNumber(text) ==
    LET total == Accumulate(SplitSpaces(ToLower(text)), <<"0">>)
    IN IF IsNumber(total) /\ total # <<"0">> THEN NumberToString(total) ELSE text

C_goods_rejection ==
    <<"g", "o", "o", "d", "s", "_", "r", "e", "j", "e", "c", "t", "i", "o", "n">>
C_service_non_payment ==
    <<"s", "e", "r", "v", "i", "c", "e", "_", "n", "o", "n", "_",
      "p", "a", "y", "m", "e", "n", "t">>
C_invoice_non_payment ==
    <<"i", "n", "v", "o", "i", "c", "e", "_", "n", "o", "n", "_",
      "p", "a", "y", "m", "e", "n", "t">>
C_short_payment ==
    <<"s", "h", "o", "r", "t", "_", "p", "a", "y", "m", "e", "n", "t">>
C_interest_on_delay ==
    <<"i", "n", "t", "e", "r", "e", "s", "t", "_", "o", "n", "_",
      "d", "e", "l", "a", "y">>
C_others == <<"o", "t", "h", "e", "r", "s">>

\* the keyword table, in the order Object.entries enumerates it
mappings ==
    << <<(<<"g", "o", "o", "d", "s">>), C_goods_rejection>>,
       <<(<<"q", "u", "a", "l", "i", "t", "y">>), C_goods_rejection>>,
       <<(<<"r", "e", "j", "e", "c", "t">>), C_goods_rejection>>,
       <<(<<"d", "e", "f", "e", "c", "t", "i", "v", "e">>), C_goods_rejection>>,
       <<(<<"s", "e", "r", "v", "i", "c", "e">>), C_service_non_payment>>,
       <<(<<"w", "o", "r", "k">>), C_service_non_payment>>,
       <<(<<"l", "a", "b", "o", "r">>), C_service_non_payment>>,
       <<(<<"i", "n", "v", "o", "i", "c", "e">>), C_invoice_non_payment>>,
       <<(<<"b", "i", "l", "l">>), C_invoice_non_payment>>,
       <<(<<"p", "a", "y", "m", "e", "n", "t">>), C_invoice_non_payment>>,
       <<(<<"s", "h", "o", "r", "t">>), C_short_payment>>,
       <<(<<"p", "a", "r", "t", "i", "a", "l">>), C_short_payment>>,
       <<(<<"l", "e", "s", "s">>), C_short_payment>>,
       <<(<<"i", "n", "t", "e", "r", "e", "s", "t">>), C_interest_on_delay>>,
       <<(<<"d", "e", "l", "a", "y">>), C_interest_on_delay>>,
       <<(<<"l", "a", "t", "e">>), C_interest_on_delay>>,
       <<(<<"p", "e", "n", "a", "l", "t", "y">>), C_interest_on_delay>> >>

\* the category of the keyword that stands first in the text
_mapDisputeTypeByPosition(text) ==
    LET at(i) == CHOOSE a \in 1..(Len(text) + 1) :
                   /\ HasAt(text, mappings[i][1], a)
                   /\ \A b \in 1..(a - 1) : ~HasAt(text, mappings[i][1], b)
        found == {i \in 1..Len(mappings) : Includes(text, mappings[i][1])}
    IN IF found = {} THEN C_others
       ELSE mappings[CHOOSE i \in found :
                       \A k \in found :
                          at(i) < at(k) \/ (at(i) = at(k) /\ i <= k)][2]

_mapDisputeType(text) ==
    IF \E i \in 1..Len(mappings) : Includes(text, mappings[i][1])
    THEN mappings[CHOOSE i \in 1..Len(mappings) :
                    /\ Includes(text, mappings[i][1])
                    /\ \A k \in 1..(i - 1) : ~ Includes(text, mappings[k][1])][2]
    ELSE C_others

\* the names _extractState looks for, in its order
states ==
    << <<"a", "n", "d", "h", "r", "a", " ", "p", "r", "a", "d", "e", "s", "h">>,
       <<"a", "r", "u", "n", "a", "c", "h", "a", "l", " ", "p", "r", "a", "d", "e", "s", "h">>,
       <<"a", "s", "s", "a", "m">>,
       <<"b", "i", "h", "a", "r">>,
       <<"c", "h", "h", "a", "t", "t", "i", "s", "g", "a", "r", "h">>,
       <<"g", "o", "a">>,
       <<"g", "u", "j", "a", "r", "a", "t">>,
       <<"h", "a", "r", "y", "a", "n", "a">>,
       <<"h", "i", "m", "a", "c", "h", "a", "l", " ", "p", "r", "a", "d", "e", "s", "h">>,
       <<"j", "h", "a", "r", "k", "h", "a", "n", "d">>,
       <<"k", "a", "r", "n", "a", "t", "a", "k", "a">>,
       <<"k", "e", "r", "a", "l", "a">>,
       <<"m", "a", "d", "h", "y", "a", " ", "p", "r", "a", "d", "e", "s", "h">>,
       <<"m", "a", "h", "a", "r", "a", "s", "h", "t", "r", "a">>,
       <<"m", "a", "n", "i", "p", "u", "r">>,
       <<"m", "e", "g", "h", "a", "l", "a", "y", "a">>,
       <<"m", "i", "z", "o", "r", "a", "m">>,
       <<"n", "a", "g", "a", "l", "a", "n", "d">>,
       <<"o", "d", "i", "s", "h", "a">>,
       <<"p", "u", "n", "j", "a", "b">>,
       <<"r", "a", "j", "a", "s", "t", "h", "a", "n">>,
       <<"s", "i", "k", "k", "i", "m">>,
       <<"t", "a", "m", "i", "l", " ", "n", "a", "d", "u">>,
       <<"t", "e", "l", "a", "n", "g", "a", "n", "a">>,
       <<"t", "r", "i", "p", "u", "r", "a">>,
       <<"u", "t", "t", "a", "r", " ", "p", "r", "a", "d", "e", "s", "h">>,
       <<"u", "t", "t", "a", "r", "a", "k", "h", "a", "n", "d">>,
       <<"w", "e", "s", "t", " ", "b", "e", "n", "g", "a", "l">>,
       <<"d", "e", "l", "h", "i">>,
       <<"c", "h", "a", "n", "d", "i", "g", "a", "r", "h">>,
       <<"p", "u", "d", "u", "c", "h", "e", "r", "r", "y">>,
       <<"j", "a", "m", "m", "u", " ", "a", "n", "d", " ", "k", "a", "s", "h", "m", "i", "r">>,
       <<"l", "a", "d", "a", "k", "h">> >>

\* String.prototype.toUpperCase, one character
UpperChar(c) ==
    IF \E i \in 1..Len(LowerCase) : LowerCase[i] = c
    THEN UpperCase[CHOOSE i \in 1..Len(LowerCase) : LowerCase[i] = c]
    ELSE c

\* state.split(' ').map(w => w.charAt(0).toUpperCase() + w.slice(1)).join(' '):
\* the first character of the name and every character after a blank
TitleCase(s) ==
    [i \in 1..Len(s) |->
       IF i = 1 \/ s[i - 1] = " " THEN UpperChar(s[i]) ELSE s[i]]

\* the names looked for in the text as it is
_extractStateCaseSensitive(text) ==
    IF \E i \in 1..Len(states) : Includes(text, states[i])
    THEN TitleCase(states[CHOOSE i \in 1..Len(states) :
                            /\ Includes(text, states[i])
                            /\ \A k \in 1..(i - 1) : ~Includes(text, states[k])])
    ELSE text

_extractState(text) ==
    IF \E i \in 1..Len(states) : Includes(ToLower(text), states[i])
    THEN TitleCase(states[CHOOSE i \in 1..Len(states) :
                            /\ Includes(ToLower(text), states[i])
                            /\ \A k \in 1..(i - 1) :
                                 ~Includes(ToLower(text), states[k])])
    ELSE text

\* ------------------------------------------------------------ the page

\* the fields addVoiceButtons gives a microphone button, with their types
Triggers ==
    { [id |-> "edit_claim_amount", type |-> "amount"],
      [id |-> "edit_dispute_type", type |-> "dispute_type"] }

FieldIds == {tr.id : tr \in Triggers}

\* the fields that are SELECT elements (filled with setSelectValue)
SelectFields == {"edit_dispute_type", "edit_document_count", "edit_jurisdiction"}

\* option values of a SELECT, in list order
Options(f) ==
    CASE f = "edit_dispute_type" -> << <<>>, C_goods_rejection, C_others >>
      [] f = "edit_document_count" ->
           << <<>>, <<"l", "o", "w">>, <<"h", "i", "g", "h">>, <<"1", "0", "+">> >>
      [] f = "edit_jurisdiction" ->
           << <<>>, <<"D", "e", "l", "h", "i">>,
              <<"N", "e", "w", " ", "D", "e", "l", "h", "i">>,
              <<"W", "e", "s", "t", " ", "B", "e", "n", "g", "a", "l">> >>
      [] OTHER -> << >>

\* option labels (.text) of a SELECT, in list order
OptionTexts(f) ==
    CASE f = "edit_document_count" ->
           << <<"S", "e", "l", "e", "c", "t">>, <<"F", "e", "w">>,
              <<"M", "a", "n", "y">>, <<"H", "i", "g", "h", "e", "s", "t">> >>
      [] OTHER -> Options(f)

NoField == "null"

\* the transcripts the engine or the server may report
Transcripts ==
    { <<"5", " ", "l", "a", "k", "h">>,
      <<"g", "o", "o", "d", "s">>,
      <<"f", "i", "v", "e">>,
      <<"f", "i", "v", "e", " ", "l", "a", "k", "h">> }

\* SpeechRecognitionErrorEvent.error; "aborted" stands for every other code
ErrorCodes == {"not-allowed", "no-speech", "network", "aborted"}

\* there is no element voiceLanguageSelect on the page
NoSelector == "absent"

\* recognition.lang = 'en-IN' of the constructor, and of _detectLanguage
DefaultLang == "en-IN"

\* the values the language selector may have
LangValues == {"", "hi-IN", "ta-IN"}

\* ------------------------------------------------------------- bounds

\* startFallbackRecording calls in one run
MaxCaptures == 2

\* ticks a recorder's age is counted to (it saturates there)
MaxElapsed == 3

\* -------------------------------------------------------------- state

VARIABLES
    fallbackMode,    \* this.fallbackMode (this.recognition is null iff TRUE)
    isRecording,     \* this.isRecording
    targetField,     \* this.targetField: a field id or NoField
    markers,         \* mic buttons carrying the 'recording' class, by field id
    toast,           \* the notification last shown
    onresult,        \* the closure bound to recognition.onresult: fieldId, fieldType
    engine,          \* the speech engine: idle, started, stopping, ending
    engineOwner,     \* the session (fieldId, fieldType) whose start() began the run
    fieldValue,      \* .value of the input fields
    selectedIndex,   \* .selectedIndex of the SELECT fields (0-based, -1 none)
    recorders,       \* the calls of startFallbackRecording, by number
    mediaRecorder,   \* this.mediaRecorder: a recorder's number or 0 (null)
    audioChunks,     \* this.audioChunks: the recorders whose chunk was pushed
    last             \* the handler that ran last, with what it was given and did

\* the notification elements (id voiceToast) and their callbacks
VARIABLES
    toastCount,      \* elements _showVoiceToast has created so far
    toastEls,        \* the created elements now attached to document.body
    toastEl          \* each created element: class 'show', pending callbacks

\* a normalizer applied on its own
VARIABLES
    amountText,      \* the text given to _extractAmount
    amountValue,     \* what it returned, or NotApplied
    procCall,        \* the latest call of _processTranscript and its outcome
    procFirst        \* the first call followed, and whether others came since

\* the language of recognition
VARIABLES
    langSelector,    \* .value of the element voiceLanguageSelect, or NoSelector
    recognitionLang, \* this.recognition.lang
    engineLang       \* the language the engine's run was started with

toastVars == <<toastCount, toastEls, toastEl>>
langVars == <<langSelector, recognitionLang, engineLang>>
normVars == <<amountText, amountValue, procCall, procFirst>>
pageVars == <<fieldValue, selectedIndex>>
liveVars == <<onresult, engine, engineOwner>>
fbVars == <<recorders, mediaRecorder, audioChunks>>
vars ==
    <<fallbackMode, isRecording, targetField, markers, toast, onresult, engine,
      engineOwner, fieldValue, selectedIndex, recorders, mediaRecorder,
      audioChunks, last, toastCount, toastEls, toastEl, amountText,
      amountValue, procCall, procFirst, langSelector, recognitionLang,
      engineLang>>

NoSession == [id |-> NoField, type |-> "none"]

NoToast == [msg |-> "none", type |-> "none", quote |-> <<>>]

Toast(msg, type, quote) == [msg |-> msg, type |-> type, quote |-> quote]

NoLast ==
    [op |-> "init", id |-> NoField, type |-> "none", text |-> <<>>,
     final |-> FALSE, code |-> "none", wasRecording |-> FALSE,
     failed |-> FALSE, events |-> <<>>, rid |-> 0, toasts |-> <<>>,
     stopped |-> 0, elapsed |-> 0, clip |-> <<>>, steps |-> <<>>]

\* a call of startFallbackRecording: its closure (fieldId, fieldType), its
\* stream's tracks, its MediaRecorder (state, time recorded), its timer and
\* its upload
NoRecorder ==
    [state |-> "unused", id |-> NoField, type |-> "none", tracks |-> "none",
     elapsed |-> 0, timer |-> "none", timerLeft |-> 0, upload |-> "none"]

\* a call nothing can come of any more keeps no closure: denied; stopped and
\* answered, with its timer (if still armed); failed, with its live tracks
Settle1(rec) ==
    CASE rec.state = "denied" -> [NoRecorder EXCEPT !.state = "done"]
      [] rec.state = "failed" ->
           [NoRecorder EXCEPT !.state = "failed", !.tracks = "live"]
      [] rec.state \in {"stopped", "done"} /\ rec.upload \in {"done", "none"} ->
           IF rec.timer = "armed"
           THEN [NoRecorder EXCEPT !.state = "done", !.timer = "armed",
                                   !.timerLeft = rec.timerLeft]
           ELSE [NoRecorder EXCEPT !.state = "done"]
      [] OTHER -> rec

Settle(recs) == [r \in DOMAIN recs |-> Settle1(recs[r])]

\* --------------------------------------------------------------- DOM

\* index (0-based) of the first option of f whose value is v, or -1
FirstOption(f, v) ==
    IF \E i \in 1..Len(Options(f)) : Options(f)[i] = v
    THEN (CHOOSE i \in 1..Len(Options(f)) :
            /\ Options(f)[i] = v
            /\ \A k \in 1..(i - 1) : Options(f)[k] # v) - 1
    ELSE -1

\* the values only, whatever labels says
OptionValueContains(f, i, lower, labels) ==
    Includes(ToLower(Options(f)[i]), lower)

\* whether option i (1-based) of f has the lower-case text in its value
\* (or, with labels, in its label or its value), compared in lower case
OptionContains(f, i, lower, labels) ==
    \/ labels /\ Includes(ToLower(OptionTexts(f)[i]), lower)
    \/ Includes(ToLower(Options(f)[i]), lower)

\* index (0-based) of the last option of f that contains the text, or -1
LastContaining(f, lower, labels) ==
    IF \E i \in 1..Len(Options(f)) : OptionContains(f, i, lower, labels)
    THEN (CHOOSE i \in 1..Len(Options(f)) :
            /\ OptionContains(f, i, lower, labels)
            /\ \A k \in (i + 1)..Len(Options(f)) :
                 ~OptionContains(f, k, lower, labels)) - 1
    ELSE -1

\* index (0-based) of the first option of f that contains the text, or -1
FirstContaining(f, lower, labels) ==
    IF \E i \in 1..Len(Options(f)) : OptionContains(f, i, lower, labels)
    THEN (CHOOSE i \in 1..Len(Options(f)) :
            /\ OptionContains(f, i, lower, labels)
            /\ \A k \in 1..(i - 1) : ~OptionContains(f, k, lower, labels)) - 1
    ELSE -1

\* element.value = v on the page dom = [value, sel]
SetValue(dom, f, v) ==
    IF f \in SelectFields
    THEN [dom EXCEPT !.sel[f] = FirstOption(f, v)]
    ELSE [dom EXCEPT !.value[f] = v]

\* element.value read back
GetValue(dom, f) ==
    IF f \in SelectFields
    THEN IF dom.sel[f] = -1 THEN <<>> ELSE Options(f)[dom.sel[f] + 1]
    ELSE dom.value[f]

Dom == [value |-> fieldValue, sel |-> selectedIndex]

\* ------------------------------------------------- _processTranscript

FieldTypes == {tr.type : tr \in Triggers}

\* the string _processTranscript computes before it looks at the page
Canonical(text, fieldType) ==
    CASE fieldType = "amount" -> _extractAmount(text)
      [] fieldType = "dispute_type" -> _mapDisputeType(ToLower(text))
      [] OTHER -> text

\* Canonical over the transcripts and types of the page, computed once
CanonicalTable ==
    [fieldType \in FieldTypes |->
       [text \in Transcripts |-> Canonical(text, fieldType)]]

CanonicalOf(text, fieldType) ==
    IF fieldType \in FieldTypes /\ text \in Transcripts
    THEN CanonicalTable[fieldType][text]
    ELSE Canonical(text, fieldType)

\* selectedIndex is left as it is
NoChange == -2

\* full_case and every other type, with the text in lower case
FullCaseLowered(text, fieldId) ==
    [value |-> ToLower(text), id |-> fieldId, sel |-> NoChange, events |-> <<>>]

\* case 'full_case' and default: the text as it is
FullCase(text, fieldId) ==
    [value |-> text, id |-> fieldId, sel |-> NoChange, events |-> <<>>]

\* the value returned, the option it selected on the SELECT fieldId (or
\* NoChange) and the events it dispatched, in order
_processTranscript(text, fieldType, fieldId) ==
    CASE fieldType = "amount" ->
           [value |-> CanonicalOf(text, fieldType), id |-> fieldId,
            sel |-> NoChange, events |-> <<>>]
      [] fieldType = "dispute_type" ->
           LET mapped == CanonicalOf(text, fieldType)
               i == FirstOption(fieldId, mapped)
           IN IF fieldId \in SelectFields /\ i # -1
              THEN [value |-> mapped, id |-> fieldId, sel |-> i,
                    events |-> << <<fieldId, "change">> >>]
              ELSE [value |-> mapped, id |-> fieldId, sel |-> NoChange,
                    events |-> <<>>]
      [] fieldType = "days" ->
           [value |-> _textToNumber(text), id |-> fieldId, sel |-> NoChange,
            events |-> <<>>]
      [] fieldType = "jurisdiction" ->
           LET state == _extractState(text)
               i == FirstContaining(fieldId, ToLower(state), FALSE)
           IN IF fieldId \in SelectFields /\ i # -1
              THEN [value |-> state, id |-> fieldId, sel |-> i,
                    events |-> << <<fieldId, "change">> >>]
              ELSE [value |-> state, id |-> fieldId, sel |-> NoChange,
                    events |-> <<>>]
      [] fieldType = "select" ->
           LET i == FirstContaining(fieldId, ToLower(text), TRUE)
           IN IF fieldId \in SelectFields /\ i # -1
              THEN [value |-> Options(fieldId)[i + 1], id |-> fieldId,
                    sel |-> i, events |-> << <<fieldId, "change">> >>]
              ELSE [value |-> text, id |-> fieldId, sel |-> NoChange,
                    events |-> <<>>]
      [] OTHER -> FullCase(text, fieldId)

\* the page after _processTranscript returned p and p.value was assigned to
\* the value of the field target
Commit(dom, p, target) ==
    SetValue(IF p.sel = NoChange THEN dom ELSE [dom EXCEPT !.sel[p.id] = p.sel],
             target, p.value)

\* ------------------------------------------------------ notifications

MsgListening == "Listening"
MsgCaptured == "Captured: "
MsgRecording == "Recording (max 10s)"
MsgTranscribed == "Transcribed: "
MsgDeniedFallback == "Microphone access denied. Please allow or type manually."
MsgUnavailable == "Server transcription not available. Web Speech API recommended."
MsgFailed == "Transcription failed: "

\* the message recognition.onerror maps an error code to
ErrorMessage(code) ==
    CASE code = "not-allowed" ->
           "Microphone access denied. Please allow in browser settings."
      [] code = "no-speech" -> "No speech detected. Try again."
      [] code = "network" -> "Network error. Check connection."
      [] OTHER -> "Voice input error."

\* ---------------------------------------------------- _detectLanguage

\* the default whatever the page says
_detectLanguageDefault == DefaultLang

\* lines 117-120
_detectLanguage ==
    IF langSelector # NoSelector THEN langSelector ELSE DefaultLang

\* the user chooses a language in the selector
SelectLanguage(v) ==
    /\ langSelector # NoSelector
    /\ langSelector' = v
    /\ UNCHANGED <<fallbackMode, isRecording, targetField, markers, toast,
                   liveVars, pageVars, fbVars, last, toastVars, normVars,
                   recognitionLang, engineLang>>

\* ------------------------------------------------------ stopRecording

\* recognition.stop(): a started engine begins to stop; otherwise nothing
\* (in fallback mode this.recognition is null and nothing is called)
RecognitionStop(e) ==
    IF ~fallbackMode /\ e = "started" THEN "stopping" ELSE e

\* stopRecording() that flips the recording flag instead of clearing it
StopRecordingFlip(e) ==
    /\ isRecording' = ~isRecording
    /\ engine' = RecognitionStop(e)
    /\ markers' = {}

\* stopRecording() that clears the marker of the target field only
StopRecordingOwnMarker(e) ==
    /\ isRecording' = FALSE
    /\ engine' = RecognitionStop(e)
    /\ markers' = markers \ {targetField}

\* stopRecording() on an engine in state e, which other handlers of the same
\* step may have moved already
StopRecordingFrom(e) ==
    /\ isRecording' = FALSE
    /\ engine' = RecognitionStop(e)
    /\ markers' = {}

\* the public stopRecording(), called on its own
StopRecording ==
    /\ StopRecordingFrom(engine)
    /\ UNCHANGED <<fallbackMode, toastVars, normVars, langVars, targetField, toast, onresult, engineOwner,
                   pageVars, fbVars>>
    /\ last' = [NoLast EXCEPT !.op = "stopRecording",
                              !.wasRecording = isRecording]

\* ----------------------------------------------------- startRecording

\* lines 30-33: already recording, stop and return
StartToggle(fieldId, fieldType) ==
    /\ StopRecordingFrom(engine)
    /\ UNCHANGED <<fallbackMode, toastVars, normVars, langVars, targetField, toast, onresult, engineOwner,
                   pageVars, fbVars>>
    /\ last' = [NoLast EXCEPT !.op = "startRecording", !.id = fieldId,
                              !.type = fieldType, !.wasRecording = TRUE]

\* the lowest recorder number not used yet
FreeSlot == CHOOSE r \in 1..MaxCaptures :
              /\ recorders[r].state = "unused"
              /\ \A k \in 1..(r - 1) : recorders[k].state # "unused"

\* lines 283-285: startFallbackRecording up to its await of getUserMedia
StartFallbackRecording(fieldId, fieldType) ==
    /\ \E r \in 1..MaxCaptures : recorders[r].state = "unused"
    /\ recorders' = [recorders EXCEPT ![FreeSlot] =
                       [NoRecorder EXCEPT !.state = "requesting",
                                          !.id = fieldId, !.type = fieldType]]
    /\ UNCHANGED <<fallbackMode, toastVars, normVars, langVars, isRecording, targetField, markers, toast,
                   liveVars, pageVars, mediaRecorder, audioChunks>>
    /\ last' = [NoLast EXCEPT !.op = "startRecording", !.id = fieldId,
                              !.type = fieldType, !.rid = FreeSlot]

\* lines 45-102: the live session; recognition.lang is set from the page,
\* and recognition.start(), which reads it, throws InvalidStateError unless
\* the engine is idle
StartLive(fieldId, fieldType) ==
    /\ targetField' = fieldId
    /\ onresult' = [id |-> fieldId, type |-> fieldType]
    /\ toast' = Toast(MsgListening, "info", <<>>)
    /\ IF engine = "idle"
       THEN /\ isRecording' = TRUE
            /\ markers' = markers \cup {fieldId}
            /\ engine' = "started"
            /\ engineOwner' = [id |-> fieldId, type |-> fieldType]
       ELSE /\ StopRecordingFrom(engine)
            /\ UNCHANGED engineOwner
    /\ recognitionLang' = _detectLanguage
    /\ engineLang' = IF engine = "idle" THEN _detectLanguage ELSE engineLang
    /\ UNCHANGED <<fallbackMode, toastVars, normVars, langSelector, pageVars,
                   fbVars>>
    /\ last' = [NoLast EXCEPT !.op = "startRecording", !.id = fieldId,
                              !.type = fieldType, !.failed = (engine # "idle"),
                              !.toasts = <<Toast(MsgListening, "info", <<>>)>>]

\* startRecording without lines 30-33: it starts a session whether or not
\* one is active
StartRecordingNoToggle(fieldId, fieldType) ==
    IF fallbackMode THEN StartFallbackRecording(fieldId, fieldType)
    ELSE StartLive(fieldId, fieldType)

StartRecording(fieldId, fieldType) ==
    IF isRecording THEN StartToggle(fieldId, fieldType)
    ELSE IF fallbackMode THEN StartFallbackRecording(fieldId, fieldType)
    ELSE StartLive(fieldId, fieldType)

\* ------------------------------------------------- the engine's events

\* recognition.onresult writing final results only: an interim result
\* leaves the page as it is
OnResultPageFinalOnly(dom, text, isFinal, fieldType, fieldId) ==
    LET p == _processTranscript(text, fieldType, fieldId)
    IN IF isFinal
       THEN [dom |-> Commit(dom, p, targetField),
             events |-> p.events \o << <<targetField, "input">>,
                                       <<targetField, "change">> >>]
       ELSE [dom |-> dom, events |-> <<>>]

\* what recognition.onresult does to the page, lines 61-81: every event is
\* processed and assigned; a final event is processed and assigned again and
\* dispatches input and change
OnResultPage(dom, text, isFinal, fieldType, fieldId) ==
    LET p == _processTranscript(text, fieldType, fieldId)
    IN IF isFinal
       THEN [dom |-> Commit(Commit(dom, p, targetField), p, targetField),
             events |-> p.events \o p.events
                          \o << <<targetField, "input">>,
                                <<targetField, "change">> >>]
       ELSE [dom |-> Commit(dom, p, targetField), events |-> p.events]

\* a result event of the running engine; a final result ends the run
OnResult(text, isFinal) ==
    /\ engine \in {"started", "stopping"}
    /\ LET r == OnResultPage(Dom, text, isFinal, onresult.type, onresult.id)
       IN /\ fieldValue' = r.dom.value
          /\ selectedIndex' = r.dom.sel
          /\ last' = [NoLast EXCEPT
                        !.op = "onresult", !.id = targetField,
                        !.type = onresult.type, !.text = text,
                        !.final = isFinal, !.wasRecording = isRecording,
                        !.events = r.events,
                        !.toasts = IF isFinal
                                   THEN <<Toast(MsgCaptured, "success", text)>>
                                   ELSE <<>>]
    /\ toast' = IF isFinal THEN Toast(MsgCaptured, "success", text) ELSE toast
    /\ engine' = IF isFinal THEN "ending" ELSE engine
    /\ UNCHANGED <<fallbackMode, toastVars, normVars, langVars, isRecording, targetField, markers, onresult,
                   engineOwner, fbVars>>

\* recognition.onerror without its stopRecording() call
OnErrorNoStop(code) ==
    /\ engine \in {"started", "stopping"}
    /\ toast' = Toast(ErrorMessage(code), "error", <<>>)
    /\ engine' = "ending"
    /\ UNCHANGED <<fallbackMode, toastVars, normVars, langVars, isRecording, markers, targetField, onresult,
                   engineOwner, pageVars, fbVars>>
    /\ last' = [NoLast EXCEPT !.op = "onerror", !.code = code,
                              !.wasRecording = isRecording,
                              !.toasts = <<Toast(ErrorMessage(code), "error", <<>>)>>]

\* an error event of the running engine, lines 83-91; the run then ends
OnError(code) ==
    /\ engine \in {"started", "stopping"}
    /\ toast' = Toast(ErrorMessage(code), "error", <<>>)
    /\ StopRecordingFrom("ending")
    /\ UNCHANGED <<fallbackMode, toastVars, normVars, langVars, targetField, onresult, engineOwner, pageVars,
                   fbVars>>
    /\ last' = [NoLast EXCEPT !.op = "onerror", !.code = code,
                              !.wasRecording = isRecording,
                              !.toasts = <<Toast(ErrorMessage(code), "error", <<>>)>>]

\* the end event closing every run, lines 93-95
OnEnd ==
    /\ engine \in {"started", "stopping", "ending"}
    /\ StopRecordingFrom("idle")
    /\ UNCHANGED <<fallbackMode, toastVars, normVars, langVars, targetField, toast, onresult, engineOwner,
                   pageVars, fbVars>>
    /\ last' = [NoLast EXCEPT !.op = "onend", !.wasRecording = isRecording]

\* ------------------------------------------------ the fallback recorder

\* setTimeout(..., 10000) of startFallbackRecording
MaxRecordingMs == 10000

\* the clock advances by half the maximum duration
TickMs == MaxRecordingMs \div 2

Min(a, b) == IF a < b THEN a ELSE b

\* getUserMedia resolves, lines 286-313: the recorder starts, the timer is armed
MicGranted(r) ==
    /\ recorders[r].state = "requesting"
    /\ mediaRecorder' = r
    /\ audioChunks' = <<>>
    /\ isRecording' = TRUE
    /\ markers' = markers \cup {recorders[r].id}
    /\ toast' = Toast(MsgRecording, "info", <<>>)
    /\ recorders' = [recorders EXCEPT ![r].state = "recording",
                                      ![r].tracks = "live",
                                      ![r].timer = "armed",
                                      ![r].timerLeft = MaxRecordingMs]
    /\ UNCHANGED <<fallbackMode, toastVars, normVars, langVars, targetField, liveVars, pageVars>>
    /\ last' = [NoLast EXCEPT !.op = "granted", !.rid = r,
                              !.wasRecording = isRecording,
                              !.toasts = <<Toast(MsgRecording, "info", <<>>)>>]

\* the catch block without its stopRecording() call
MicDeniedNoStop(r) ==
    /\ recorders[r].state = "requesting"
    /\ recorders' = Settle([recorders EXCEPT ![r].state = "denied"])
    /\ toast' = Toast(MsgDeniedFallback, "error", <<>>)
    /\ UNCHANGED <<fallbackMode, toastVars, normVars, langVars, isRecording, engine, markers, targetField,
                   onresult, engineOwner, pageVars, mediaRecorder, audioChunks>>
    /\ last' = [NoLast EXCEPT !.op = "denied", !.rid = r,
                              !.wasRecording = isRecording,
                              !.toasts = <<Toast(MsgDeniedFallback, "error", <<>>)>>]

\* lines 315-319, reached from a rejected getUserMedia
MicDenied(r) ==
    /\ recorders[r].state = "requesting"
    /\ recorders' = Settle([recorders EXCEPT ![r].state = "denied"])
    /\ toast' = Toast(MsgDeniedFallback, "error", <<>>)
    /\ StopRecordingFrom(engine)
    /\ UNCHANGED <<fallbackMode, toastVars, normVars, langVars, targetField, onresult, engineOwner, pageVars,
                   mediaRecorder, audioChunks>>
    /\ last' = [NoLast EXCEPT !.op = "denied", !.rid = r,
                              !.wasRecording = isRecording,
                              !.toasts = <<Toast(MsgDeniedFallback, "error", <<>>)>>]

\* lines 315-319, reached from line 286: the stream was acquired and
\* new MediaRecorder(stream) throws (no MediaRecorder on the platform)
RecorderFails(r) ==
    /\ recorders[r].state = "requesting"
    /\ recorders' = Settle([recorders EXCEPT ![r].state = "failed",
                                             ![r].tracks = "live"])
    /\ toast' = Toast(MsgDeniedFallback, "error", <<>>)
    /\ StopRecordingFrom(engine)
    /\ UNCHANGED <<fallbackMode, toastVars, normVars, langVars, targetField, onresult, engineOwner, pageVars,
                   mediaRecorder, audioChunks>>
    /\ last' = [NoLast EXCEPT !.op = "recorderFails", !.rid = r,
                              !.wasRecording = isRecording,
                              !.toasts = <<Toast(MsgDeniedFallback, "error", <<>>)>>]

TimerDue == \E r \in 1..MaxCaptures :
              recorders[r].timer = "armed" /\ recorders[r].timerLeft = 0

\* time passes: recorders age, armed timers run down; a due timer fires first
Tick ==
    /\ ~TimerDue
    /\ recorders' =
         [r \in 1..MaxCaptures |->
            [recorders[r] EXCEPT
               !.elapsed = IF recorders[r].state = "recording"
                           THEN Min(@ + TickMs, MaxElapsed * TickMs) ELSE @,
               !.timerLeft = IF recorders[r].timer = "armed"
                             THEN @ - TickMs ELSE @]]
    /\ UNCHANGED <<fallbackMode, toastVars, normVars, langVars, isRecording, targetField, markers, toast,
                   liveVars, pageVars, mediaRecorder, audioChunks>>
    /\ UNCHANGED last

\* the timer armed for recorder r fires, lines 309-313: it stops the
\* recorder this.mediaRecorder names, if that one is recording
TimerFires(r) ==
    /\ recorders[r].timer = "armed"
    /\ recorders[r].timerLeft = 0
    /\ LET m == mediaRecorder
           stops == m # 0 /\ recorders[m].state = "recording"
       IN /\ recorders' =
               Settle(IF stops
                      THEN [recorders EXCEPT ![r].timer = "fired",
                                             ![m].state = "stopping",
                                             ![m].elapsed = 0]
                      ELSE [recorders EXCEPT ![r].timer = "fired"])
          /\ last' = [NoLast EXCEPT
                        !.op = "timer", !.rid = r,
                        !.wasRecording = isRecording,
                        !.stopped = IF stops THEN m ELSE 0,
                        !.elapsed = IF stops THEN recorders[m].elapsed ELSE 0]
    /\ UNCHANGED <<fallbackMode, toastVars, normVars, langVars, isRecording, targetField, markers, toast,
                   liveVars, pageVars, mediaRecorder, audioChunks>>

\* what mediaRecorder.onstop does, in order, lines 299-303
OnStopSteps == <<"tracks.stop", "stopRecording", "new Blob", "_sendToServer">>

\* the dataavailable and stop events of a stopped recorder, lines 294-304,
\* and _sendToServer up to its await of fetch, lines 322-330
RecorderStopped(r) ==
    /\ recorders[r].state = "stopping"
    /\ audioChunks' = Append(audioChunks, r)
    /\ recorders' = [recorders EXCEPT ![r].state = "stopped",
                                      ![r].tracks = "stopped",
                                      ![r].upload = "inflight"]
    /\ StopRecordingFrom(engine)
    /\ UNCHANGED <<fallbackMode, toastVars, normVars, langVars, targetField, toast, onresult, engineOwner,
                   pageVars, mediaRecorder>>
    /\ last' = [NoLast EXCEPT !.op = "onstop", !.rid = r,
                              !.wasRecording = isRecording,
                              !.clip = Append(audioChunks, r),
                              !.steps = OnStopSteps]

\* what the server may answer: {text}, {fallback: true}, {error} (an HTTP
\* error with a JSON body), or a failure of fetch or of response.json()
Outcomes == {"text", "fallback", "error", "failure"}

\* a field other than the one the recording was started for
UploadFieldOther(r) == CHOOSE f \in FieldIds : f # recorders[r].id

\* document.getElementById(fieldId), line 335: fieldId is the argument the
\* recording was started with
UploadField(r) == recorders[r].id

\* the rest of _sendToServer, lines 332-346
UploadResponse(r, outcome, text) ==
    /\ recorders[r].upload = "inflight"
    /\ recorders' = Settle([recorders EXCEPT ![r].upload = "done"])
    /\ LET p == _processTranscript(text, recorders[r].type, recorders[r].id)
           d == Commit(Dom, p, UploadField(r))
           shown == CASE outcome = "text" ->
                           <<Toast(MsgTranscribed, "success", text)>>
                      [] outcome = "fallback" ->
                           <<Toast(MsgUnavailable, "error", <<>>)>>
                      [] outcome = "failure" ->
                           <<Toast(MsgFailed, "error", <<>>)>>
                      [] OTHER -> <<>>
       IN /\ fieldValue' = IF outcome = "text" THEN d.value ELSE fieldValue
          /\ selectedIndex' = IF outcome = "text" THEN d.sel ELSE selectedIndex
          /\ toast' = IF shown = <<>> THEN toast ELSE shown[1]
          /\ last' = [NoLast EXCEPT
                        !.op = "response", !.rid = r, !.code = outcome,
                        !.id = UploadField(r), !.type = recorders[r].type,
                        !.text = IF outcome = "text" THEN text ELSE <<>>,
                        !.wasRecording = isRecording,
                        !.events = IF outcome = "text"
                                   THEN Append(p.events,
                                               <<UploadField(r), "input">>)
                                   ELSE <<>>,
                        !.toasts = shown]
    /\ UNCHANGED <<fallbackMode, toastVars, normVars, langVars, isRecording, targetField, markers, liveVars,
                   mediaRecorder, audioChunks>>

\* --------------------------------------------------- _showVoiceToast

\* notifications shown in one run
MaxToasts == 3

\* setTimeout(..., 3500): the delay before the class 'show' is taken away
HideAfterMs == 3500

\* setTimeout(..., 300): the delay from there to the element's removal
FadeMs == 300

\* the clock of the notifications advances by a third of the fade
ToastTickMs == FadeMs \div 3

\* an element never created, or one with no callback left
\* (gone: how it left the page, "replaced" or "timer", or "no")
NoToastEl ==
    [show |-> FALSE, frame |-> FALSE, timer |-> "none", left |-> 0,
     gone |-> "no"]

\* document.getElementById('voiceToast'): the first attached element, 0 if none
ExistingToast ==
    IF toastEls = {} THEN 0
    ELSE CHOOSE k \in toastEls : \A j \in toastEls : k <= j

\* the removal callback looking the element up by its id when it fires
ToastRemoveById(k) ==
    /\ toastEl[k].timer = "remove"
    /\ toastEl[k].left = 0
    /\ toastEls' = toastEls \ {ExistingToast}
    /\ toastEl' = [j \in 1..MaxToasts |->
                     [toastEl[j] EXCEPT
                        !.timer = IF j = k THEN "done" ELSE @,
                        !.gone = IF j = ExistingToast THEN "timer" ELSE @]]
    /\ UNCHANGED <<toastCount, toast>>

\* _showVoiceToast(message, type), lines 349-368: the element on the page is
\* removed, a new one is appended, its frame callback and its timer are set
ShowVoiceToast(message, type) ==
    /\ toastCount < MaxToasts
    /\ toastCount' = toastCount + 1
    /\ toastEls' = (toastEls \ {ExistingToast}) \cup {toastCount + 1}
    /\ toastEl' = [k \in 1..MaxToasts |->
                     IF k = toastCount + 1
                     THEN [show |-> FALSE, frame |-> TRUE, timer |-> "hide",
                           left |-> HideAfterMs, gone |-> "no"]
                     ELSE IF k = ExistingToast
                     THEN [toastEl[k] EXCEPT !.gone = "replaced"]
                     ELSE toastEl[k]]
    /\ toast' = Toast(message, type, <<>>)

\* the requestAnimationFrame callback of element k, line 361
ToastFrame(k) ==
    /\ toastEl[k].frame
    /\ toastEl' = [toastEl EXCEPT ![k].frame = FALSE, ![k].show = TRUE]
    /\ UNCHANGED <<toastCount, toastEls, toast>>

ToastTimerDue ==
    \E k \in 1..MaxToasts :
      toastEl[k].timer \in {"hide", "remove"} /\ toastEl[k].left = 0

\* time passes for the pending timers; frame callbacks and due timers run first
ToastTick ==
    /\ ~ToastTimerDue
    /\ \A k \in 1..MaxToasts : ~toastEl[k].frame
    /\ \E k \in 1..MaxToasts : toastEl[k].timer \in {"hide", "remove"}
    /\ toastEl' = [k \in 1..MaxToasts |->
                     IF toastEl[k].timer \in {"hide", "remove"}
                     THEN [toastEl[k] EXCEPT !.left = @ - ToastTickMs]
                     ELSE toastEl[k]]
    /\ UNCHANGED <<toastCount, toastEls, toast>>

\* the outer timer of element k, lines 364-367
ToastHideFires(k) ==
    /\ toastEl[k].timer = "hide"
    /\ toastEl[k].left = 0
    /\ toastEl' = [toastEl EXCEPT ![k].show = FALSE, ![k].timer = "remove",
                                  ![k].left = FadeMs]
    /\ UNCHANGED <<toastCount, toastEls, toast>>

\* the inner timer of element k, line 366: toast.remove() on its own element
ToastRemoveFires(k) ==
    /\ toastEl[k].timer = "remove"
    /\ toastEl[k].left = 0
    /\ toastEls' = toastEls \ {k}
    /\ toastEl' = [toastEl EXCEPT ![k].timer = "done",
                                  ![k].gone = IF k \in toastEls
                                              THEN "timer" ELSE @]
    /\ UNCHANGED <<toastCount, toast>>

\* the notifications a handler may ask for
ToastRequests ==
    { [msg |-> MsgListening, type |-> "info"],
      [msg |-> MsgDeniedFallback, type |-> "error"] }

\* ------------------------------------------- _extractAmount on its own

\* longest text of the plain alphabet given to a normalizer
MaxLen == 3

\* the integers spoken before a unit: small ones, one with leading zeros,
\* and powers of ten times a digit whose products pass 10^21
AmountNumbers ==
    { <<"0">>, <<"5">>, <<"0", "0", "7">>, <<"2", "1", "5">>,
      <<"1">> \o Zeros(16), <<"3">> \o Zeros(18) }

AmountUnits == {W_lakh, W_lac, W_crore, W_thousand}

NoTail == [n |-> <<>>, unit |-> <<>>]

\* a second amount after the first one
AmountTails ==
    { NoTail,
      [n |-> <<"3">>, unit |-> W_lakh],
      [n |-> <<"2">>, unit |-> W_crore],
      [n |-> <<"4">>, unit |-> W_thousand] }

\* "<n><sp><unit>" or "<n><sp><unit> <n2> <unit2>"
AmountCases ==
    [n : AmountNumbers, sp : {<<>>, <<" ">>}, unit : AmountUnits,
     tail : AmountTails]

CaseText(c) ==
    c.n \o c.sp \o c.unit
      \o (IF c.tail = NoTail THEN <<>>
          ELSE <<" ">> \o c.tail.n \o <<" ">> \o c.tail.unit)

UnitTexts == {CaseText(c) : c \in AmountCases}

PlainAlphabet == {"5", "0", "a", " ", ","}

\* texts without any unit word
PlainTexts ==
    UNION {[1..len -> PlainAlphabet] : len \in 0..MaxLen}
      \cup { <<"f", "i", "v", "e", " ", "h", "u", "n", "d", "r", "e", "d">>,
             <<"R", "s", ".", " ", "1", ",", "2", "5", "0", "/", "-">> }

AmountTexts == UnitTexts \cup PlainTexts

\* no value returned yet
NotApplied == <<"?">>

\* _extractAmount(text) is called and returns
ExtractAmount ==
    /\ amountValue = NotApplied
    /\ amountValue' = _extractAmount(amountText)
    /\ UNCHANGED amountText

\* ---------------------------------------- _processTranscript on its own

\* most words of a text given to _textToNumber
MaxWords == 3

DayTokens ==
    { <<"t", "w", "o">>,
      <<"f", "i", "v", "e">>,
      <<"t", "w", "e", "n", "t", "y">>,
      <<"h", "u", "n", "d", "r", "e", "d">>,
      <<"t", "h", "o", "u", "s", "a", "n", "d">>,
      <<"5", "t", "h">>,
      <<"z", "e", "r", "o">>,
      <<"d", "a", "y", "s">>,
      <<"c", "o", "n", "s", "t", "r", "u", "c", "t", "o", "r">> }

T_twenty_five == <<"t", "w", "e", "n", "t", "y", " ", "f", "i", "v", "e">>
T_2000_500 ==
    <<"t", "w", "o", " ", "t", "h", "o", "u", "s", "a", "n", "d", " ",
      "f", "i", "v", "e", " ", "h", "u", "n", "d", "r", "e", "d">>

\* a number of 22 digits
T_10_21 == <<"1">> \o Zeros(21)

RECURSIVE JoinWords(_)
JoinWords(ws) ==
    IF Len(ws) = 0 THEN <<>>
    ELSE IF Len(ws) = 1 THEN ws[1]
    ELSE ws[1] \o <<" ">> \o JoinWords(Tail(ws))

\* texts of one to MaxWords tokens, and texts with capitals, more blanks,
\* no token, a number of 22 digits, another inherited name
DayTexts ==
    {JoinWords(ws) : ws \in UNION {[1..n -> DayTokens] : n \in 1..MaxWords}}
      \cup { <<"T", "w", "e", "n", "t", "y", " ", " ", "F", "I", "V", "E">>,
             <<" ", "9", "0", " ", "d", "a", "y", "s", " ">>,
             <<>>, <<"0">>, <<"t", "e", "n">>,
             T_10_21, T_2000_500,
             <<"_", "_", "p", "r", "o", "t", "o", "_", "_", " ", "t", "e", "n">> }

DisputeTexts ==
    { <<"t", "h", "e", " ", "g", "o", "o", "d", "s", " ", "w", "e", "r", "e", " ", "d", "e", "f", "e", "c", "t", "i", "v", "e", " ", "a", "n", "d", " ", "p", "a", "y", "m", "e", "n", "t", " ", "d", "e", "l", "a", "y", "e", "d">>,
      <<"p", "a", "y", "m", "e", "n", "t", " ", "f", "o", "r", " ", "g", "o", "o", "d", "s">>,
      <<"L", "a", "t", "e", " ", "P", "A", "Y", "M", "E", "N", "T">>,
      <<"s", "e", "r", "v", "i", "c", "e">>,
      <<"w", "o", "r", "k", "s", "h", "o", "p", " ", "p", "e", "n", "a", "l", "t", "y">>,
      <<"h", "e", "l", "l", "o">>,
      <<>> }

JurisdictionTexts ==
    { <<"f", "i", "l", "e", "d", " ", "i", "n", " ", "W", "e", "s", "t", " ", "B", "e", "n", "g", "a", "l", " ", "c", "o", "u", "r", "t">>,
      <<"W", "E", "S", "T", " ", "b", "e", "n", "g", "a", "l">>,
      <<"n", "e", "w", " ", "d", "e", "l", "h", "i">>,
      <<"g", "o", "a">>,
      <<"b", "e", "n", "g", "a", "l">>,
      <<"u", "t", "t", "a", "r", "a", "k", "h", "a", "n", "d", " ", "a", "n", "d", " ", "u", "t", "t", "a", "r", " ", "p", "r", "a", "d", "e", "s", "h">>,
      <<"j", "a", "m", "m", "u", " ", "a", "n", "d", " ", "k", "a", "s", "h", "m", "i", "r">>,
      <<"m", "u", "m", "b", "a", "i">>,
      <<>> }

ChoiceTexts ==
    { <<"f", "e", "w">>,
      <<"H", "I", "G", "H">>,
      <<"1", "0">>,
      <<"e">>,
      <<"z", "z", "z">>,
      <<>> }

\* texts with nothing in them a normalizer knows
PlainProbes ==
    { <<"h", "e", "l", "l", "o">>,
      <<"?", "?", "?">>,
      <<>> }

\* the types _processTranscript has a case for, and one it has none for
ProcTypes ==
    {"amount", "days", "dispute_type", "jurisdiction", "select", "full_case",
     "notes"}

\* the elements a call may name: the inputs and the SELECTs of the form
ProcFields ==
    {"edit_claim_amount", "edit_delay_days"} \cup SelectFields

\* a call: its arguments
ProcCases ==
    [type : {"days"}, field : {"edit_delay_days"}, text : DayTexts]
      \cup [type : {"dispute_type"},
            field : {"edit_dispute_type", "edit_claim_amount"},
            text : DisputeTexts]
      \cup [type : {"jurisdiction"},
            field : {"edit_jurisdiction", "edit_delay_days"},
            text : JurisdictionTexts]
      \cup [type : {"select"},
            field : {"edit_document_count", "edit_claim_amount"},
            text : ChoiceTexts]
      \cup [type : {"full_case", "notes"},
            field : {"edit_dispute_type", "edit_claim_amount"},
            text : DisputeTexts \cup ChoiceTexts]
      \cup [type : {"amount"}, field : {"edit_claim_amount"},
            text : {<<"5", " ", "l", "a", "k", "h">>}]
      \cup [type : ProcTypes, field : ProcFields, text : PlainProbes]

\* the calls made again and again
RepeatCases ==
    [type : {"days"}, field : {"edit_delay_days"},
     text : {<<"t", "e", "n">>, <<"t", "w", "o", " ", "h", "u", "n", "d", "r", "e", "d">>}]
      \cup [type : {"select"}, field : {"edit_document_count"},
            text : {<<"f", "e", "w">>, <<"H", "I", "G", "H">>, <<"z", "z", "z">>}]
      \cup [type : {"jurisdiction"}, field : {"edit_jurisdiction"},
            text : {<<"n", "e", "w", " ", "d", "e", "l", "h", "i">>, <<"b", "e", "n", "g", "a", "l">>}]
      \cup [type : {"dispute_type"}, field : {"edit_dispute_type"},
            text : {<<"p", "a", "y", "m", "e", "n", "t", " ", "f", "o", "r", " ", "g", "o", "o", "d", "s">>,
                    <<"h", "e", "l", "l", "o">>}]

\* the calls whose value is normalized again: texts with and without
\* something to find, every category and every state name as returned
TwiceCases ==
    [type : {"amount"}, field : {"edit_claim_amount"},
     text : { <<"5", " ", "l", "a", "k", "h">>,
            <<"f", "i", "v", "e", " ", "l", "a", "k", "h">>,
            <<"R", "s", ".", " ", "1", ",", "2", "5", "0", "/", "-">>,
            <<"2", " ", "c", "r", "o", "r", "e", " ", "5", " ", "l", "a", "k", "h">>,
            <<"0", "0", "7">>,
            <<>> }]
      \cup [type : {"days"}, field : {"edit_delay_days"},
            text : { <<"t", "w", "e", "n", "t", "y", " ", "f", "i", "v", "e">>,
                   <<"t", "w", "o", " ", "h", "u", "n", "d", "r", "e", "d">>,
                   <<"5", "t", "h">>,
                   <<"z", "e", "r", "o">>,
                   <<"0">>,
                   <<"n", "i", "n", "e", "t", "y", " ", "c", "o", "n", "s", "t", "r", "u", "c", "t", "o", "r">>,
                   <<>> }]
      \cup [type : {"dispute_type"}, field : {"edit_dispute_type"},
            text : DisputeTexts
                     \cup {mappings[i][2] : i \in 1..Len(mappings)}
                     \cup {C_others, <<"s", "h", "o", "r", "t">>}]
      \cup [type : {"jurisdiction"}, field : {"edit_jurisdiction"},
            text : JurisdictionTexts
                     \cup {TitleCase(states[i]) : i \in 1..Len(states)}]

\* the same calls with the value returned as the text
TwiceValues ==
    {[type |-> c.type, field |-> c.field,
      text |-> _processTranscript(c.text, c.type, c.field).value] :
       c \in TwiceCases}

\* no call yet, or a call not yet made (its value is NotApplied); before is
\* the selection of every SELECT when the call was made
NoCall ==
    [type |-> "none", field |-> NoField, text |-> <<>>, value |-> NotApplied,
     sel |-> NoChange, events |-> <<>>, before |-> NoChange, others |-> FALSE]

\* _processTranscript over the cases, computed once
ProcTable ==
    [c \in ProcCases \cup RepeatCases \cup TwiceCases \cup TwiceValues |->
       _processTranscript(c.text, c.type, c.field)]

\* a call whose text begins with the words of the call before it
CallCarrying(c) ==
    LET p == _processTranscript(procCall.text \o <<" ">> \o c.text, c.type,
                                c.field)
    IN [type |-> c.type, field |-> c.field, text |-> c.text,
        value |-> p.value, sel |-> p.sel, events |-> p.events,
        before |-> selectedIndex,
        others |-> FALSE]

\* the call _processTranscript(c.text, c.type, c.field) with what it
\* returned, selected and dispatched, and the selection it found
Call(c) ==
    [type |-> c.type, field |-> c.field, text |-> c.text,
     value |-> ProcTable[c].value, sel |-> ProcTable[c].sel,
     events |-> ProcTable[c].events,
     before |-> selectedIndex,
     others |-> FALSE]

\* the page as it was
SelectedNothing(call) == selectedIndex

\* the page after the call
Selected(call) ==
    IF call.sel = NoChange THEN selectedIndex
    ELSE [selectedIndex EXCEPT ![call.field] = call.sel]

\* the arguments of a call
CaseOf(call) == [type |-> call.type, field |-> call.field, text |-> call.text]

\* the call given at the start is made
Normalize ==
    /\ procCall.type # "none"
    /\ procCall.value = NotApplied
    /\ LET call == Call(CaseOf(procCall))
       IN /\ procCall' = call
          /\ selectedIndex' = Selected(call)
    /\ UNCHANGED procFirst

\* the value returned is given to the same normalizer again; the first
\* call is kept
NormalizeValue ==
    /\ procCall.type # "none"
    /\ procCall.value # NotApplied
    /\ procFirst = NoCall
    /\ LET call == Call([type |-> procCall.type, field |-> procCall.field,
                         text |-> procCall.value])
       IN /\ procCall' = call
          /\ selectedIndex' = Selected(call)
    /\ procFirst' = procCall

\* a call among others: the first one is kept, and whether a different
\* one has been made since
NormalizeAgain(c) ==
    /\ LET call == Call(c)
       IN /\ procCall' = call
          /\ selectedIndex' = Selected(call)
          /\ procFirst' =
               IF procFirst = NoCall THEN call
               ELSE [procFirst EXCEPT !.others = @ \/ c # CaseOf(procFirst)]

\* ------------------------------------------------------ specification

\* the constructor, lines 7-25, on a page whose fields are empty; the
\* platform has a speech engine or has none
InitManager ==
    /\ fallbackMode \in BOOLEAN
    /\ isRecording = FALSE
    /\ targetField = NoField
    /\ markers = {}
    /\ toast = NoToast
    /\ onresult = NoSession
    /\ engine = "idle"
    /\ engineOwner = NoSession
    /\ fieldValue = [f \in FieldIds \ SelectFields |-> <<>>]
    /\ selectedIndex = [f \in SelectFields |-> 0]
    /\ recorders = [r \in 1..MaxCaptures |-> NoRecorder]
    /\ mediaRecorder = 0
    /\ audioChunks = <<>>
    /\ last = NoLast

\* no notification element yet
InitToasts ==
    /\ toastCount = 0
    /\ toastEls = {}
    /\ toastEl = [k \in 1..MaxToasts |-> NoToastEl]

\* a page without a language selector; lines 18-21 of the constructor
InitLanguage ==
    /\ langSelector = NoSelector
    /\ recognitionLang = IF fallbackMode THEN "none" ELSE DefaultLang
    /\ engineLang = "none"

Init ==
    /\ InitManager
    /\ InitToasts
    /\ InitLanguage
    /\ amountText = <<>>
    /\ amountValue = NotApplied
    /\ procCall = NoCall
    /\ procFirst = NoCall

Next ==
    \/ \E tr \in Triggers : StartRecording(tr.id, tr.type)
    \/ StopRecording
    \/ \E text \in Transcripts : \E isFinal \in BOOLEAN : OnResult(text, isFinal)
    \/ \E code \in ErrorCodes : OnError(code)
    \/ OnEnd
    \/ \E r \in 1..MaxCaptures : MicGranted(r)
    \/ \E r \in 1..MaxCaptures : MicDenied(r)
    \/ \E r \in 1..MaxCaptures : RecorderFails(r)
    \/ Tick
    \/ \E r \in 1..MaxCaptures : TimerFires(r)
    \/ \E r \in 1..MaxCaptures : RecorderStopped(r)
    \/ \E r \in 1..MaxCaptures : \E outcome \in Outcomes :
         \E text \in Transcripts :
           /\ outcome # "text" => text = CHOOSE t \in Transcripts : TRUE
           /\ UploadResponse(r, outcome, text)

Spec == Init /\ [][Next]_vars

\* the callbacks of the platform come when they are due: the engine ends
\* its run, getUserMedia settles, time passes, a due timer fires, a stopped
\* recorder reports, an upload is answered or fails
Fairness ==
    /\ WF_vars(OnEnd)
    /\ WF_vars(Tick)
    /\ \A r \in 1..MaxCaptures :
         /\ WF_vars(MicGranted(r) \/ MicDenied(r) \/ RecorderFails(r))
         /\ WF_vars(TimerFires(r))
         /\ WF_vars(RecorderStopped(r))
         /\ WF_vars(\E outcome \in Outcomes : \E text \in Transcripts :
                      UploadResponse(r, outcome, text))

SpecFair == Spec /\ Fairness

\* the manager's other state, which the notification steps leave alone
restOfToast ==
    <<fallbackMode, isRecording, targetField, markers, onresult, engine,
      engineOwner, fieldValue, selectedIndex, recorders, mediaRecorder,
      audioChunks, last, amountText, amountValue, procCall, procFirst,
      langVars>>

\* the notifications on their own: any handler asks for one at any time
NextToast ==
    \/ \E q \in ToastRequests :
         ShowVoiceToast(q.msg, q.type) /\ UNCHANGED restOfToast
    \/ \E k \in 1..MaxToasts : ToastFrame(k) /\ UNCHANGED restOfToast
    \/ ToastTick /\ UNCHANGED restOfToast
    \/ \E k \in 1..MaxToasts : ToastHideFires(k) /\ UNCHANGED restOfToast
    \/ \E k \in 1..MaxToasts : ToastRemoveFires(k) /\ UNCHANGED restOfToast

SpecToast == Init /\ [][NextToast]_vars

\* _extractAmount given any of the texts
InitAmount ==
    /\ InitManager
    /\ InitToasts
    /\ InitLanguage
    /\ amountText \in AmountTexts
    /\ amountValue = NotApplied
    /\ procCall = NoCall
    /\ procFirst = NoCall

NextAmount ==
    ExtractAmount
      /\ UNCHANGED <<fallbackMode, isRecording, targetField, markers, toast,
                     onresult, engine, engineOwner, fieldValue, selectedIndex,
                     recorders, mediaRecorder, audioChunks, last, toastVars,
                     procCall, procFirst, langVars>>

SpecAmount == InitAmount /\ [][NextAmount]_vars

\* the manager's other state, which a normalizer leaves alone
restOfProcess ==
    <<fallbackMode, isRecording, targetField, markers, toast, onresult,
      engine, engineOwner, fieldValue, recorders, mediaRecorder, audioChunks,
      last, toastVars, amountText, amountValue, langVars>>

\* _processTranscript given any of the cases, on a form with any selection
InitProcess ==
    /\ fallbackMode = FALSE
    /\ isRecording = FALSE
    /\ targetField = NoField
    /\ markers = {}
    /\ toast = NoToast
    /\ onresult = NoSession
    /\ engine = "idle"
    /\ engineOwner = NoSession
    /\ fieldValue = [f \in FieldIds \ SelectFields |-> <<>>]
    /\ selectedIndex \in [SelectFields -> {0, 1}]
    /\ recorders = [r \in 1..MaxCaptures |-> NoRecorder]
    /\ mediaRecorder = 0
    /\ audioChunks = <<>>
    /\ last = NoLast
    /\ InitToasts
    /\ InitLanguage
    /\ amountText = <<>>
    /\ amountValue = NotApplied
    /\ \E c \in ProcCases :
         procCall = [NoCall EXCEPT !.type = c.type, !.field = c.field,
                                   !.text = c.text]
    /\ procFirst = NoCall

NextProcess == Normalize /\ UNCHANGED restOfProcess

SpecProcess == InitProcess /\ [][NextProcess]_vars

\* _processTranscript called again and again
NextRepeat ==
    \E c \in RepeatCases : NormalizeAgain(c) /\ UNCHANGED restOfProcess

SpecRepeat == Init /\ [][NextRepeat]_vars

\* a normalizer applied to a transcript and then to what it returned
InitTwice ==
    /\ InitManager
    /\ fallbackMode = FALSE
    /\ InitToasts
    /\ InitLanguage
    /\ amountText = <<>>
    /\ amountValue = NotApplied
    /\ \E c \in TwiceCases :
         procCall = [NoCall EXCEPT !.type = c.type, !.field = c.field,
                                   !.text = c.text]
    /\ procFirst = NoCall

NextTwice ==
    \/ Normalize /\ UNCHANGED restOfProcess
    \/ /\ NormalizeValue
       /\ UNCHANGED restOfProcess

SpecTwice == InitTwice /\ [][NextTwice]_vars

\* the live sessions on a page with or without a language selector
InitLang ==
    /\ InitManager
    /\ fallbackMode = FALSE
    /\ InitToasts
    /\ langSelector \in {NoSelector} \cup LangValues
    /\ recognitionLang = DefaultLang
    /\ engineLang = "none"
    /\ amountText = <<>>
    /\ amountValue = NotApplied
    /\ procCall = NoCall
    /\ procFirst = NoCall

NextLang ==
    \/ \E tr \in Triggers : StartRecording(tr.id, tr.type)
    \/ StopRecording
    \/ \E text \in Transcripts : \E isFinal \in BOOLEAN : OnResult(text, isFinal)
    \/ \E code \in ErrorCodes : OnError(code)
    \/ OnEnd
    \/ \E v \in LangValues : SelectLanguage(v)

SpecLang == InitLang /\ [][NextLang]_vars

\* ------------------------------------------------------------- claims

Recording == {r \in 1..MaxCaptures : recorders[r].state = "recording"}

\* the captures running now: the live engine's run and the recording recorders
Capturing == Cardinality(Recording) + (IF engine = "started" THEN 1 ELSE 0)

\* C1: at most one capture, live engine run or fallback media recorder, is
\* capturing in any reachable state; a new one never starts capturing while
\* an earlier one still is.
C1_MutualExclusion == Capturing <= 1

\* C2: startRecording called while a session is active stops that session
\* (flag false, markers cleared, a started engine told to stop) and returns:
\* no session is created and the target field, the result handler, the
\* recorders, this.mediaRecorder and the chunks stay as they were, for the
\* field being dictated and for any other field.
C2_ToggleStopsAndReturns ==
    [][\A tr \in Triggers :
         (isRecording /\ StartRecording(tr.id, tr.type))
           => /\ ~isRecording'
              /\ markers' = {}
              /\ engine' # "started"
              /\ UNCHANGED <<targetField, onresult, engineOwner, toast,
                             recorders, mediaRecorder, audioChunks,
                             fieldValue, selectedIndex>>]_vars

\* C2 witness: a live session on one field was toggled off from the button
\* of another field
C2_ToggleReached ==
    /\ last.op = "startRecording"
    /\ last.wasRecording
    /\ ~fallbackMode
    /\ targetField # NoField
    /\ last.id # targetField
    /\ engine = "stopping"

\* C3: a fallback recorder's device tracks are live only while its session is
\* the active one: they are released before the recording flag is seen false,
\* on every exit path.
C3_DeviceReleased ==
    \A r \in 1..MaxCaptures :
      recorders[r].tracks = "live" => (isRecording /\ mediaRecorder = r)

\* C4: right after a stop call on an active session (stopRecording, or the
\* toggle of startRecording) no capture is running: the engine is not in its
\* started state and no media recorder is recording.
C4_StopHaltsCapture ==
    (last.op \in {"stopRecording", "startRecording"} /\ last.wasRecording)
      => Capturing = 0

\* C5: a timer that stops a recorder stops the recorder it was armed for,
\* exactly MaxRecordingMs after that recorder started, and no recorder records
\* longer than that.
C5_AutoStopAtMax ==
    /\ (last.op = "timer" /\ last.stopped # 0)
          => /\ last.stopped = last.rid
             /\ last.elapsed = MaxRecordingMs
    /\ \A r \in 1..MaxCaptures :
          recorders[r].state = "recording"
            => recorders[r].elapsed <= MaxRecordingMs

\* C6: an interim result (isFinal false) dispatches no input and no change
\* event, whatever the field's type.
C6_InterimDispatchesNothing ==
    (last.op = "onresult" /\ ~last.final) => last.events = <<>>

\* C7: every result of an engine run is normalized with the type and written
\* to the field of the session that started the run.
C7_TargetBinding ==
    last.op = "onresult"
      => /\ last.id = engineOwner.id
         /\ last.type = engineOwner.type

\* C8: when recognition.start() fails, the session is not recording and the
\* notification shown is an error.
C8_StartFailureNotified ==
    (last.op = "startRecording" /\ last.failed)
      => /\ ~isRecording
         /\ toast.type = "error"

\* C9: after the error handler ran, the notification shown is the error
\* message of the code (not-allowed, no-speech and network have their own,
\* every other code the generic one), the session is not recording and no
\* button carries the recording marker.
C9_ErrorHandled ==
    last.op = "onerror"
      => /\ toast.type = "error"
         /\ toast.msg =
              (CASE last.code = "not-allowed" ->
                      "Microphone access denied. Please allow in browser settings."
                 [] last.code = "no-speech" -> "No speech detected. Try again."
                 [] last.code = "network" -> "Network error. Check connection."
                 [] OTHER -> "Voice input error.")
         /\ ~isRecording
         /\ markers = {}

\* C9 witness: a network error ended a session that was recording
C9_ErrorReached ==
    /\ last.op = "onerror"
    /\ last.code = "network"
    /\ last.wasRecording
    /\ engine = "ending"

\* C10: an explicit stop, the engine's end event and the recorder's stop
\* (the path of the 10-second timer) leave the same stopped state: flag
\* false, no capture running, no marker.
C10_StopConverges ==
    last.op \in {"stopRecording", "onend", "onstop"}
      => /\ ~isRecording
         /\ markers = {}
         /\ Capturing = 0

\* C11: stopRecording called right after stopRecording changes nothing of the
\* manager, the engine, the recorders or the page, and called when no session
\* is active it leaves the flag false and every marker cleared.
C11_StopIdempotent ==
    [][StopRecording
         => /\ last.op = "stopRecording"
                 => UNCHANGED <<fallbackMode, isRecording, targetField, markers,
                                toast, onresult, engine, engineOwner,
                                fieldValue, selectedIndex, recorders,
                                mediaRecorder, audioChunks>>
            /\ ~isRecording => (~isRecording' /\ markers' = {})]_vars

\* C11 witness: a live session was stopped, and stopRecording was called again
\* while the engine was still stopping
C11_StopTwiceReached ==
    /\ last.op = "stopRecording"
    /\ ~last.wasRecording
    /\ engine = "stopping"
    /\ targetField # NoField

\* C12: when the recording flag is false no button carries the recording
\* marker: stopRecording clears it from all buttons.
C12_NoStaleMarker == ~isRecording => markers = {}

\* C12 witness: a stop cleared the markers of two fallback sessions at once
\* (the second was granted while the first was recording)
C12_AllMarkersCleared ==
    /\ last.op \in {"stopRecording", "startRecording"}
    /\ last.wasRecording
    /\ markers = {}
    /\ Cardinality({r \in 1..MaxCaptures : recorders[r].state = "recording"}) = 2
    /\ recorders[1].id # recorders[2].id

\* the events in evs dispatched on field f
EventsOn(evs, f) == {evs[i][2] : i \in {k \in 1..Len(evs) : evs[k][1] = f}}

\* C13: an upload answered with text commits as a final result of the live
\* engine does: input and change are both dispatched on the field, and a
\* success notification quotes the raw text.
C13_FallbackCommitsAsLive ==
    (last.op = "response" /\ last.code = "text")
      => /\ {"input", "change"} \subseteq EventsOn(last.events, last.id)
         /\ toast.type = "success"
         /\ toast.quote = last.text

\* C14: every answer to an upload ({text}, {fallback: true}, an {error} body,
\* a transport failure) shows one notification: success for text, an error
\* for the others.
C14_UploadOutcomeNotified ==
    last.op = "response"
      => /\ Len(last.toasts) = 1
         /\ toast = last.toasts[1]
         /\ toast.type = (IF last.code = "text" THEN "success" ELSE "error")

\* C15: when getUserMedia is rejected, the notification shown is the
\* microphone-access-denied error, the recording flag is false, the call has
\* no recorder, no live track, no timer and no upload and is not requesting
\* any more, and the fields, this.mediaRecorder and the chunks are untouched.
C15_MicDeniedAborts ==
    [][\A r \in 1..MaxCaptures :
         MicDenied(r)
           => /\ toast'.type = "error"
              /\ toast'.msg
                   = "Microphone access denied. Please allow or type manually."
              /\ ~isRecording'
              /\ recorders'[r].state = "done"
              /\ recorders'[r].tracks = "none"
              /\ recorders'[r].timer = "none"
              /\ recorders'[r].upload = "none"
              /\ UNCHANGED <<fieldValue, selectedIndex, mediaRecorder,
                             audioChunks, targetField>>]_vars

\* C15 witness: the microphone was refused to a call made while an earlier
\* fallback session was recording
C15_MicDeniedReached ==
    /\ last.op = "denied"
    /\ last.wasRecording
    /\ recorders[last.rid].state = "done"
    /\ toast.msg = MsgDeniedFallback

T_five == <<"f", "i", "v", "e">>

T_five_lakh == <<"f", "i", "v", "e", " ", "l", "a", "k", "h">>

\* C16: on the amount field, the interim result "five" leaves "5" in the
\* field, and the final result "five lakh" leaves "500000" and shows exactly
\* one success notification, quoting "five lakh".
C16_FiveLakhScenario ==
    (last.op = "onresult" /\ last.type = "amount"
       /\ last.id = "edit_claim_amount")
      => /\ (last.text = T_five /\ ~last.final)
              => fieldValue["edit_claim_amount"] = <<"5">>
         /\ (last.text = T_five_lakh /\ last.final)
              => /\ fieldValue["edit_claim_amount"]
                      = <<"5", "0", "0", "0", "0", "0">>
                 /\ Len(last.toasts) = 1
                 /\ toast.type = "success"
                 /\ toast.quote = T_five_lakh

C18_SingleNotification ==
    /\ Cardinality(toastEls) <= 1
    /\ \A k \in toastEls : k = toastCount /\ toastEl[k].timer # "done"
    /\ \A k \in 1..toastCount :
          /\ (toastEl[k].timer # "done" /\ toastEl[k].gone = "no")
                => k \in toastEls
          /\ toastEl[k].gone = "timer" => toastEl[k].timer = "done"
          /\ toastEl[k].gone = "replaced" => k < toastCount

\* C18 witness: the dismissal timers of a replaced notification have run
\* while the notification that replaced it is on the page
C18_OldTimerRan ==
    /\ toastCount = 2
    /\ toastEl[1].gone = "replaced"
    /\ toastEl[1].timer = "done"
    /\ toastEls = {2}
    /\ toastEl[2].show

\* the place of a unit in the order the patterns are tried
UnitRank(u) == CASE u \in {W_lakh, W_lac} -> 1 [] u = W_crore -> 2 [] OTHER -> 3

\* the decimal exponent of a unit's multiplier
UnitExponent(u) == CASE u \in {W_lakh, W_lac} -> 5 [] u = W_crore -> 7 [] OTHER -> 3

\* the decimal string of n * 10^k
DecimalProduct(n, k) ==
    LET m == StripZeros(n)
    IN IF m = <<"0">> THEN m ELSE m \o [i \in 1..k |-> "0"]

\* the amount of a case: of its first unit in the order lakh/lac, crore,
\* thousand, wherever it stands
CaseAmount(c) ==
    IF c.tail = NoTail \/ UnitRank(c.unit) <= UnitRank(c.tail.unit)
    THEN DecimalProduct(c.n, UnitExponent(c.unit))
    ELSE DecimalProduct(c.tail.n, UnitExponent(c.tail.unit))

\* C19: for every integer n, "n lakh" and "n lac" give the decimal string of
\* n*100000, "n crore" of n*10000000 and "n thousand" of n*1000, and of
\* several unit patterns the first in the order lakh/lac, crore, thousand
\* decides, wherever it stands in the text.
C19_AmountMultipliers ==
    (amountValue # NotApplied /\ amountText \in UnitTexts)
      => \A c \in AmountCases :
           CaseText(c) = amountText => amountValue = CaseAmount(c)

\* the digit characters of s, in order
RECURSIVE KeepDigits(_)
KeepDigits(s) ==
    IF s = <<>> THEN <<>>
    ELSE IF \E d \in 0..9 : s[1] = Digits[d + 1]
    THEN <<s[1]>> \o KeepDigits(Tail(s))
    ELSE KeepDigits(Tail(s))

\* C20: a text with no <integer> unit pattern gives the concatenation of its
\* digit characters in order when it has a digit, and itself when it has none.
C20_AmountFallback ==
    (amountValue # NotApplied /\ amountText \in PlainTexts)
      => amountValue = (IF KeepDigits(amountText) # <<>>
                        THEN KeepDigits(amountText) ELSE amountText)

\* C20 witness: digits apart from each other were joined, the rest dropped
C20_DigitsJoined ==
    /\ amountText = <<"R", "s", ".", " ", "1", ",", "2", "5", "0", "/", "-">>
    /\ amountValue = <<"1", "2", "5", "0">>

\* a finished call of _processTranscript for the type t
Called(t) == procCall.type = t /\ procCall.value # NotApplied

\* the decimal string of a + b
DecimalSum(a, b) == StripZeros(AddDigits(a, b, 0))

\* one token on the running accumulator, as the day-count rule puts it
DayStep(acc, token) ==
    LET base == IF acc = <<"0">> THEN <<"1">> ELSE acc
    IN IF KeepDigits(token) # <<>>
       THEN DecimalSum(acc, StripZeros(KeepDigits(token)))
       ELSE IF token = W_hundred THEN DecimalProduct(base, 2)
       ELSE IF token = W_thousand THEN DecimalProduct(base, 3)
       ELSE IF \E i \in 1..Len(numberWords) : numberWords[i][1] = token
       THEN DecimalSum(acc, WordValue(token))
       ELSE acc

\* the accumulator after the tokens, left to right
RECURSIVE DayTotal(_, _)
DayTotal(tokens, acc) ==
    IF tokens = <<>> THEN acc
    ELSE DayTotal(Tail(tokens), DayStep(acc, tokens[1]))

\* the total the day-count rule gives a text
DayCount(text) == DayTotal(SplitSpaces(ToLower(text)), <<"0">>)

\* C21: the day count of a text is the running accumulator after its
\* whitespace-separated tokens, left to right: a token with digits adds the
\* integer of its digits, "hundred" and "thousand" multiply the accumulator
\* (or 1 when it is zero) by 100 and 1000, any other table word adds its
\* value; "twenty five" gives "25", "hundred" "100" and "two thousand five
\* hundred" "200500".
C21_DayAccumulation ==
    Called("days")
      => /\ (DayCount(procCall.text) # <<"0">> /\ Len(DayCount(procCall.text)) <= 21)
              => procCall.value = DayCount(procCall.text)
         /\ procCall.text = T_twenty_five => procCall.value = <<"2", "5">>
         /\ procCall.text = W_hundred => procCall.value = <<"1", "0", "0">>
         /\ procCall.text = T_2000_500
              => procCall.value = <<"2", "0", "0", "5", "0", "0">>

\* C21 without the names numberWords inherits: the accumulation holds for
\* every other text
C21_OwnWordsOnly ==
    (Called("days")
       /\ \A i \in 1..Len(SplitSpaces(ToLower(procCall.text))) :
             SplitSpaces(ToLower(procCall.text))[i] \notin InheritedKeys)
      => /\ (DayCount(procCall.text) # <<"0">> /\ Len(DayCount(procCall.text)) <= 21)
              => procCall.value = DayCount(procCall.text)
         /\ DayCount(procCall.text) = <<"0">> => procCall.value = procCall.text

\* the accumulated total of _textToNumber for a text
total(text) == Accumulate(SplitSpaces(ToLower(text)), <<"0">>)

\* C22: the day count returned is the decimal string of the accumulated
\* total when that total is greater than zero, and the original text
\* otherwise ("zero", "0", text with no numeric token).
C22_DayResult ==
    Called("days")
      => IF IsNumber(total(procCall.text)) /\ total(procCall.text) # <<"0">>
         THEN procCall.value = total(procCall.text)
         ELSE procCall.value = procCall.text

\* C22 for the totals below 10^21
C22_BelowExponentForm ==
    (Called("days") /\ Len(total(procCall.text)) <= 21) => C22_DayResult

\* whether the text pat occurs in the text s
Occurs(pat, s) ==
    \E a \in 0..(Len(s) - Len(pat)) : SubSeq(s, a + 1, a + Len(pat)) = pat

\* the least of a non-empty set of numbers
Least(S) == CHOOSE i \in S : \A k \in S : i <= k

\* the keywords of the dispute types in their fixed order
KeywordOrder ==
    << <<"g", "o", "o", "d", "s">>,
       <<"q", "u", "a", "l", "i", "t", "y">>,
       <<"r", "e", "j", "e", "c", "t">>,
       <<"d", "e", "f", "e", "c", "t", "i", "v", "e">>,
       <<"s", "e", "r", "v", "i", "c", "e">>,
       <<"w", "o", "r", "k">>,
       <<"l", "a", "b", "o", "r">>,
       <<"i", "n", "v", "o", "i", "c", "e">>,
       <<"b", "i", "l", "l">>,
       <<"p", "a", "y", "m", "e", "n", "t">>,
       <<"s", "h", "o", "r", "t">>,
       <<"p", "a", "r", "t", "i", "a", "l">>,
       <<"l", "e", "s", "s">>,
       <<"i", "n", "t", "e", "r", "e", "s", "t">>,
       <<"d", "e", "l", "a", "y">>,
       <<"l", "a", "t", "e">>,
       <<"p", "e", "n", "a", "l", "t", "y">> >>

\* the category of the keyword at a place of the order
KeywordCategory(i) ==
    CASE i <= 4 -> C_goods_rejection
      [] i <= 7 -> C_service_non_payment
      [] i <= 10 -> C_invoice_non_payment
      [] i <= 13 -> C_short_payment
      [] OTHER -> C_interest_on_delay

\* the keywords tried one after the other from place i on
RECURSIVE Classify(_, _)
Classify(lower, i) ==
    IF i > Len(KeywordOrder) THEN C_others
    ELSE IF Occurs(KeywordOrder[i], lower) THEN KeywordCategory(i)
    ELSE Classify(lower, i + 1)

T_goods_defective ==
    <<"t", "h", "e", " ", "g", "o", "o", "d", "s", " ", "w", "e", "r", "e", " ", 
      "d", "e", "f", "e", "c", "t", "i", "v", "e", " ", "a", "n", "d",
      " ", "p", "a", "y", "m", "e", "n", "t", " ", "d", "e", "l", "a", "y", "e", "d">>
T_payment_for_goods ==
    <<"p", "a", "y", "m", "e", "n", "t", " ", "f", "o", "r", " ", "g", "o", "o", "d", "s">>

\* C23: the dispute type of a transcript is the category of the first
\* keyword, in the fixed order of the table, that occurs in the lower-cased
\* transcript, wherever the keywords stand in it, and "others" when none
\* occurs; "the goods were defective and payment delayed" is goods_rejection.
C23_DisputeClassification ==
    Called("dispute_type")
      => /\ procCall.value = Classify(ToLower(procCall.text), 1)
         /\ procCall.text = T_goods_defective
              => procCall.value = C_goods_rejection

\* C23 witness: a keyword later in the text and earlier in the table decided
C23_TableOrderWins ==
    /\ Called("dispute_type")
    /\ procCall.text = T_payment_for_goods
    /\ procCall.value = C_goods_rejection

\* the one change notification on the field of the call
ChangeOnce == << <<procCall.field, "change">> >>

\* the call selected option i (0-based) of its field and touched no other
SelectedOnly(i) ==
    /\ procCall.sel = i
    /\ procCall.events = ChangeOnce
    /\ selectedIndex = [procCall.before EXCEPT ![procCall.field] = i]

\* the call selected nothing
SelectedNone ==
    /\ procCall.sel = NoChange
    /\ procCall.events = <<>>
    /\ selectedIndex = procCall.before

\* C24: on a selection list the dispute type selects the first option whose
\* value equals the mapped category and dispatches a change notification;
\* when no option has that value the selection stays and nothing is
\* dispatched; the mapped category is returned in both cases.
C24_DisputeSelection ==
    (Called("dispute_type") /\ procCall.field \in SelectFields)
      => LET category == Classify(ToLower(procCall.text), 1)
             hits == {i \in 1..Len(Options(procCall.field)) :
                        Options(procCall.field)[i] = category}
         IN /\ procCall.value = category
            /\ IF hits # {} THEN SelectedOnly(Least(hits) - 1) ELSE SelectedNone

\* C24 witness: the selection moved from the second to the third option
C24_OptionSelected ==
    /\ Called("dispute_type")
    /\ procCall.field = "edit_dispute_type"
    /\ procCall.before["edit_dispute_type"] = 1
    /\ selectedIndex["edit_dispute_type"] = 2
    /\ procCall.events = ChangeOnce

\* the first letter of each word of s as a capital
RECURSIVE Capitalized(_, _)
Capitalized(s, start) ==
    IF s = <<>> THEN <<>>
    ELSE <<IF start THEN UpperChar(s[1]) ELSE s[1]>>
           \o Capitalized(Tail(s), s[1] = " ")

\* the places in the list of the state names the lower-cased text contains
StatesIn(text) == {i \in 1..Len(states) : Occurs(states[i], ToLower(text))}

T_WEST_bengal == <<"W", "E", "S", "T", " ", "b", "e", "n", "g", "a", "l">>
T_West_Bengal == <<"W", "e", "s", "t", " ", "B", "e", "n", "g", "a", "l">>
T_in_West_Bengal ==
    <<"f", "i", "l", "e", "d", " ", "i", "n", " ", "W", "e", "s", "t", " ", 
      "B", "e", "n", "g", "a", "l", " ", "c", "o", "u", "r", "t">>

\* C25: the jurisdiction of a transcript is the first of the 33 names, in
\* list order, that the lower-cased transcript contains, with the first
\* letter of each word as a capital ("WEST bengal" gives "West Bengal"),
\* and the transcript unchanged when it contains none.
C25_JurisdictionExtraction ==
    Called("jurisdiction")
      => /\ Len(states) = 33
         /\ procCall.value =
              IF StatesIn(procCall.text) # {}
              THEN Capitalized(states[Least(StatesIn(procCall.text))], TRUE)
              ELSE procCall.text
         /\ procCall.text \in {T_WEST_bengal, T_in_West_Bengal}
              => procCall.value = T_West_Bengal

\* C25 witness: a name written in other case was found
C25_CaseInsensitive ==
    /\ Called("jurisdiction")
    /\ procCall.text = T_WEST_bengal
    /\ procCall.value = T_West_Bengal

\* C26: on a selection list, when a state name was matched, the first option
\* whose value contains the name, compared in lower case, becomes selected
\* and a change notification is dispatched.
C26_JurisdictionSelection ==
    (Called("jurisdiction") /\ procCall.field \in SelectFields
       /\ StatesIn(procCall.text) # {})
      => LET name == ToLower(procCall.value)
             hits == {i \in 1..Len(Options(procCall.field)) :
                        Occurs(name, ToLower(Options(procCall.field)[i]))}
         IN hits # {} => SelectedOnly(Least(hits) - 1)

\* C26 witness: of two options with the name in them the first was selected
C26_FirstOfTwo ==
    /\ Called("jurisdiction")
    /\ procCall.field = "edit_jurisdiction"
    /\ procCall.text = <<"n", "e", "w", " ", "d", "e", "l", "h", "i">>
    /\ procCall.before["edit_jurisdiction"] = 0
    /\ selectedIndex["edit_jurisdiction"] = 1

\* the options (1-based) of the field of the call whose label or value has
\* the lower-cased text in it
ChoiceHits ==
    IF procCall.field \in SelectFields
    THEN {i \in 1..Len(Options(procCall.field)) :
            \/ Occurs(ToLower(procCall.text),
                      ToLower(OptionTexts(procCall.field)[i]))
            \/ Occurs(ToLower(procCall.text),
                      ToLower(Options(procCall.field)[i]))}
    ELSE {}

\* C27: a generic choice selects the first option, in list order, whose
\* label or value has the transcript in it, compared in lower case,
\* dispatches a change notification and returns that option's value; when
\* no option matches, or the field is no selection list, the transcript is
\* returned unchanged and the selection is not modified.
C27_GenericChoice ==
    Called("select")
      => IF ChoiceHits # {}
         THEN /\ SelectedOnly(Least(ChoiceHits) - 1)
              /\ procCall.value = Options(procCall.field)[Least(ChoiceHits)]
         ELSE /\ SelectedNone
              /\ procCall.value = procCall.text

\* C27 witness: a label matched and the value of its option was returned
C27_LabelMatched ==
    /\ Called("select")
    /\ procCall.text = <<"f", "e", "w">>
    /\ procCall.value = <<"l", "o", "w">>
    /\ selectedIndex["edit_document_count"] = 1

\* the five structured types
StructuredTypes == {"amount", "days", "dispute_type", "jurisdiction", "select"}

\* C28: for free text and for every type that is not one of the five
\* structured types the transcript is returned unchanged and no selection
\* list is touched.
C28_FreeTextIdentity ==
    (procCall.type \notin StructuredTypes \cup {"none"}
       /\ procCall.value # NotApplied)
      => /\ procCall.value = procCall.text
         /\ SelectedNone

\* C28 witness: a type without a case, on a selection list, with a text that
\* has capitals and keywords in it
C28_UnknownType ==
    /\ Called("notes")
    /\ procCall.field = "edit_dispute_type"
    /\ procCall.text = <<"L", "a", "t", "e", " ", "P", "A", "Y", "M", "E", "N", "T">>
    /\ procCall.value = procCall.text

\* a string: a sequence of characters
IsText(v) == DOMAIN v = 1..Len(v) /\ \A i \in 1..Len(v) : v[i] \in STRING

\* whether the type finds something in the text
Interpreted(type, text) ==
    CASE type = "amount" -> KeepDigits(text) # <<>>
      [] type = "days" -> DayCount(text) # <<"0">>
      [] type = "dispute_type" ->
           \E i \in 1..Len(KeywordOrder) : Occurs(KeywordOrder[i], ToLower(text))
      [] type = "jurisdiction" -> StatesIn(text) # {}
      [] type = "select" -> ChoiceHits # {}
      [] OTHER -> FALSE

\* C29: for every text, the empty one and those with nothing recognizable
\* included, and every type the normalizer returns a string; when it finds
\* no structured interpretation the string is the original text, or
\* "others" for the dispute type.
C29_Totality ==
    (procCall.type # "none" /\ procCall.value # NotApplied)
      => /\ IsText(procCall.value)
         /\ ~Interpreted(procCall.type, procCall.text)
              => procCall.value = IF procCall.type = "dispute_type"
                                  THEN C_others ELSE procCall.text

\* C29 witness: a day count asked of a text without any number
C29_NothingFound ==
    /\ Called("days")
    /\ procCall.text = <<"h", "e", "l", "l", "o">>
    /\ procCall.value = procCall.text

LanguageNow == IF langSelector = NoSelector THEN "en-IN" ELSE langSelector

\* C31: each live session sets the engine's language, before it starts the
\* engine, to the value the language selector has when the session starts,
\* and to en-IN when there is no selector.
C31_LanguageSelection ==
    [][\A tr \in Triggers :
         (~isRecording /\ ~fallbackMode /\ StartRecording(tr.id, tr.type))
           => /\ recognitionLang' = LanguageNow
              /\ engine' = "started" => engineLang' = LanguageNow]_vars

\* C31 witness: a run started in one language while the selector has been
\* moved to another since
C31_StartedInSelected ==
    /\ engine = "started"
    /\ isRecording
    /\ engineLang = "hi-IN"
    /\ recognitionLang = "hi-IN"
    /\ langSelector = "ta-IN"

\* C32: with the callbacks of the engine, the timers and the network coming
\* when they are due, every session that starts capturing returns to idle
\* and every engine run and media recorder it started stops: none remains
\* capturing for ever, whatever starts and stops are made.
C32_CapturesTerminate ==
    /\ \A r \in 1..MaxCaptures :
         (recorders[r].state = "recording") ~> (recorders[r].state # "recording")
    /\ (engine = "started") ~> (engine = "idle")
    /\ isRecording ~> ~isRecording

\* C32 for the live engine and the recording flag alone
C32_EngineAndFlagTerminate ==
    /\ (engine = "started") ~> (engine = "idle")
    /\ isRecording ~> ~isRecording

\* C33: a stop is final for its session: after the session was stopped (by
\* a stop call, an error or the end of the run) no result event of its
\* capture writes a field or dispatches an event; every result handled is
\* one of a session still recording.
C33_StopTerminal ==
    last.op = "onresult" => last.wasRecording

\* C34: the clip a stopped recorder uploads is made of the chunks this
\* recorder produced, in order, and of nothing else, however the fallback
\* starts overlap.
C34_ClipIntegrity ==
    last.op = "onstop" => last.clip = <<last.rid>>

\* what the page shows for a field: the value of an input, the selected
\* option of a SELECT
PageField(f) == IF f \in SelectFields THEN selectedIndex[f] ELSE fieldValue[f]

\* the same after the step
PageFieldAfter(f) ==
    IF f \in SelectFields THEN selectedIndex'[f] ELSE fieldValue'[f]

C36_JurisdictionNoMatchFrame ==
    (Called("jurisdiction") /\ procCall.field \in SelectFields
       /\ StatesIn(procCall.text) = {})
      => SelectedNone

\* the category strings
Categories ==
    {C_goods_rejection, C_service_non_payment, C_invoice_non_payment,
     C_short_payment, C_interest_on_delay, C_others}

\* C37: for amount, day count, dispute type and jurisdiction, normalizing
\* the normalized value again gives the same value, and every category
\* string of the dispute type is classified as itself.
C37_Idempotent ==
    (procFirst # NoCall /\ procCall.value # NotApplied)
      => /\ procCall.value = procFirst.value
         /\ (procFirst.type = "dispute_type" /\ procFirst.text \in Categories)
              => procFirst.value = procFirst.text

\* C37 for amount, day count and jurisdiction
C37_IdempotentButDispute ==
    (procFirst # NoCall /\ procCall.value # NotApplied
       /\ procFirst.type # "dispute_type")
      => procCall.value = procFirst.value

\* a token with a digit in it, or one of the words of the number table
KnownToken(token) ==
    \/ KeepDigits(token) # <<>>
    \/ \E i \in 1..Len(numberWords) : numberWords[i][1] = token

\* the number a returned day count stands for: zero for a text returned as
\* it came
NumericResult(v) ==
    IF v # <<>> /\ KeepDigits(v) = v THEN StripZeros(v)
    ELSE IF v # <<>> /\ KeepDigits(<<v[1]>>) # <<>> THEN v
    ELSE <<"0">>

\* C38: a token without a digit that is no word of the number table does
\* not change the accumulator, names of built-in object properties such as
\* "constructor" included: the numeric result of a text is that of the text
\* without such tokens.
C38_UnknownTokensIgnored ==
    Called("days")
      => NumericResult(procCall.value) =
           NumericResult(_textToNumber(
             JoinWords(SelectSeq(SplitSpaces(ToLower(procCall.text)),
                                 KnownToken))))

============================================================================
